---- MODULE Spec2Model ----
(***************************************************************************)
(* Model of the personal CRM backend over its contacts, statuses and       *)
(* contact_associations tables: the Kanban position reindexer              *)
(* (backend/src/app/api/v1/kanban.py, move_contact), the contact handlers  *)
(* (backend/src/app/services/contacts.py), the relationship graph handlers *)
(* (backend/src/app/services/graph.py), the graph clusterer, and the       *)
(* request-scoped database session of backend/src/app/db/database.py       *)
(* (get_db).                                                               *)
(*                                                                         *)
(* The specifications, defined over the same state:                        *)
(*   Spec        sequential calls of move_contact on a board whose columns *)
(*               start dense, one whole handler a step;                    *)
(*   SpecCrm     sequential calls of create_contact and move_contact from  *)
(*               the empty contacts table, one whole handler a step;       *)
(*   SpecTxn     one session running move_contact statement by statement,  *)
(*               with a persistence failure possible at every statement;   *)
(*   SpecConc    two sessions running one move each, interleaved at the    *)
(*               statement level under PostgreSQL READ COMMITTED;          *)
(*   SpecGraph   sequential calls of create_contact, update_contact,       *)
(*               delete_contact, create_edge, delete_edge and get_graph    *)
(*               from the empty tables, one whole handler a step;          *)
(*   SpecBoard   sequential calls of create_contact, update_contact,       *)
(*               delete_contact and delete_status on a board whose columns *)
(*               start dense, one whole handler a step;                    *)
(*   SpecBootstrap  two sessions running bootstrap_owner again and again,   *)
(*               interleaved at the level of the calls of Supabase;        *)
(*   SpecAuth    requests to POST /kanban/move under any Authorization     *)
(*               header, before, during and after the bootstrap;           *)
(*   SpecEdges   two sessions running one create_edge each, interleaved    *)
(*               at the statement level under READ COMMITTED;              *)
(*   SpecCluster clustering passes over stored graphs, between deletions   *)
(*               of contacts and edges.                                    *)
(***************************************************************************)
EXTENDS Integers, Sequences, FiniteSets, Bags, TLC

\* ------------------------------------------------------------------ bounds
\* Largest sort_order_in_status the model lets a row or a request carry.
MaxPos == 3

\* ------------------------------------------------------------ identifiers
\* Primary keys that may occur in the contacts table.
ContactIds == {"c1", "c2", "c3"}
\* Primary keys that may occur in the statuses table; "s3" is never inserted.
StatusIds == {"s1", "s2", "s3"}
\* SQL NULL in contacts.status_id.
NULL == "NULL"
\* Textual forms of one UUID that uuid.UUID() accepts: the canonical
\* lower-case hyphenated form that str(uuid) produces, and any other
\* accepted spelling (upper case, no hyphens, braces, urn:uuid: prefix).
Forms == {"canon", "other"}

\* A request carries its ids as strings: a UUID together with its spelling.
IdString(u, f) == [uuid |-> u, form |-> f]
\* uuid.UUID(s): parsing forgets the spelling.
UUID(s) == s.uuid
\* str(u) of a uuid.UUID: always the canonical spelling.
Str(u) == IdString(u, "canon")
\* Python None where the code holds an optional string.
None == IdString(NULL, "none")

Positions == 0..MaxPos
ContactRow == [status_id : (StatusIds \cup {NULL}), sort_order_in_status : Positions]

\* KanbanMoveRequest: contact_id: str, status_id: str, position: int (ge=0).
KanbanMoveRequest ==
    [contact_id : {Str(c) : c \in ContactIds},
     status_id  : {IdString(s, f) : s \in StatusIds, f \in Forms},
     position   : Positions]

\* ------------------------------------------------------------------ state
VARIABLES
    contacts,   \* committed contacts table: id -> row, for the ids that exist
    statuses,   \* committed statuses table: the set of ids that exist
    resp,       \* what the last handler call returned or raised
    before,     \* history: the committed contacts table when that call began
    in_range_moves, \* history: every successful move so far targeted a
                    \* position inside the target column
    round_trip, \* history: the table two calls back, when the last call moved
                \* a contact back to where the call before had taken it from
    session,    \* per request: the AsyncSession of get_db and where its
                \* handler stands
    associations,   \* committed contact_associations table: the bag of its
                    \* (source_contact_id, target_contact_id) rows
    cluster_id,     \* contacts.cluster_id: id -> label, for the contacts whose
                    \* cluster_id is not null
    before_associations, \* history: the committed contact_associations
                         \* table when the last call began
    passes,         \* history: the clustering passes run since the tables
                    \* last changed, counted up to two
    app_owner,      \* committed app_owner table: the bag of its rows
    auth_users,     \* the users of Supabase Auth: email -> user id
    bootstrapped,   \* history: a bootstrap call has returned its tokens
    authorization   \* history: the Authorization header of the last request
                    \* to a protected endpoint

vars == <<contacts, statuses, resp, before, in_range_moves, round_trip, session,
          associations, cluster_id, before_associations, passes,
          app_owner, auth_users, bootstrapped, authorization>>

\* The state of authentication.
auth == <<app_owner, auth_users, bootstrapped, authorization>>

\* The state of the relationship graph.
graph == <<associations, cluster_id, before_associations, passes>>

\* No request to a protected endpoint was made: no header was read and no
\* owner looked up.
NoAuthorization == [sent |-> FALSE, parts |-> <<>>, owners |-> {}]

\* The database and Supabase Auth before the first bootstrap.
NotBootstrapped ==
    /\ app_owner = EmptyBag
    /\ auth_users = [e \in {} |-> NULL]
    /\ bootstrapped = FALSE
    /\ authorization = NoAuthorization

\* No round trip was just completed.
NoRoundTrip == [valid |-> FALSE, rows |-> [c \in {} |-> NULL]]

NoResponse ==
    [op |-> "none", kind |-> "none", id |-> None, status_id |-> None, sort_order_in_status |-> 0]

\* KanbanMoveResponse(id, status_id, sort_order_in_status).
KanbanMoveResponse(id, status_id, pos) ==
    [op |-> "move", kind |-> "ok", id |-> id, status_id |-> status_id,
     sort_order_in_status |-> pos]

\* The APIError a handler raises, as the exception handler of main.py reports it.
ContactNotFoundError(op, id) ==
    [op |-> op, kind |-> "ContactNotFoundError", id |-> id, status_id |-> None,
     sort_order_in_status |-> 0]

StatusNotFoundError(op, status_id) ==
    [op |-> op, kind |-> "StatusNotFoundError", id |-> None, status_id |-> status_id,
     sort_order_in_status |-> 0]

\* The exception handler of main.py for anything that is not an APIError.
InternalError(op) ==
    [op |-> op, kind |-> "InternalError", id |-> None, status_id |-> None,
     sort_order_in_status |-> 0]

\* ------------------------------------------------- the UPDATE statements
\* The four bulk UPDATE statements of move_contact, each with the values
\* that its WHERE clause binds.
StmtMoveDownShort(status_id, old_position, new_position) ==
    [kind |-> "down", status_id |-> UUID(status_id), old |-> old_position,
     new |-> new_position - 1]
StmtMoveDown(status_id, old_position, new_position) ==
    [kind |-> "down", status_id |-> UUID(status_id), old |-> old_position, new |-> new_position]
\* The same UPDATE with the contact at the new position left out.
StmtMoveUpShort(status_id, old_position, new_position) ==
    [kind |-> "up", status_id |-> UUID(status_id), old |-> old_position,
     new |-> new_position + 1]

StmtMoveUp(status_id, old_position, new_position) ==
    [kind |-> "up", status_id |-> UUID(status_id), old |-> old_position, new |-> new_position]
StmtCloseGap(old_status_id, old_position) ==
    [kind |-> "close", status_id |-> UUID(old_status_id), old |-> old_position, new |-> old_position]
StmtMakeRoomAbove(status_id, new_position) ==
    [kind |-> "room", status_id |-> UUID(status_id), old |-> new_position + 1,
     new |-> new_position + 1]
StmtMakeRoom(status_id, new_position) ==
    [kind |-> "room", status_id |-> UUID(status_id), old |-> new_position, new |-> new_position]

\* A WHERE clause without the condition on status_id.
WhereAnyStatus(stmt, row) ==
    CASE stmt.kind = "down"  -> row.sort_order_in_status > stmt.old
                                /\ row.sort_order_in_status <= stmt.new
      [] stmt.kind = "up"    -> row.sort_order_in_status >= stmt.new
                                /\ row.sort_order_in_status < stmt.old
      [] stmt.kind = "close" -> row.sort_order_in_status > stmt.old
      [] stmt.kind = "room"  -> row.sort_order_in_status >= stmt.new

\* The WHERE clause of a statement, evaluated on one row.
Where(stmt, row) ==
    /\ row.status_id = stmt.status_id
    /\ CASE stmt.kind = "down"  -> row.sort_order_in_status > stmt.old
                                   /\ row.sort_order_in_status <= stmt.new
         [] stmt.kind = "up"    -> row.sort_order_in_status >= stmt.new
                                   /\ row.sort_order_in_status < stmt.old
         [] stmt.kind = "close" -> row.sort_order_in_status > stmt.old
         [] stmt.kind = "room"  -> row.sort_order_in_status >= stmt.new

\* The .values(...) of a statement, applied to one row.
Values(stmt, row) ==
    IF stmt.kind \in {"down", "close"}
    THEN [row EXCEPT !.sort_order_in_status = @ - 1]
    ELSE [row EXCEPT !.sort_order_in_status = @ + 1]

\* db.execute(update(Contact).where(...).values(...)) on a table the
\* statement sees whole.
Execute(rows, stmt) ==
    [c \in DOMAIN rows |-> IF Where(stmt, rows[c]) THEN Values(stmt, rows[c]) ELSE rows[c]]

\* The ORM keeps the loaded Contact in step with a bulk UPDATE
\* (synchronize_session): the criteria are evaluated on the loaded attributes.
Synchronize(obj, stmt) == IF Where(stmt, obj) THEN Values(stmt, obj) ELSE obj

\* Statements without the UPDATE that closes the gap in the old column.
StatementsNoCloseGap(request, contact) ==
    LET old_status_id == IF contact.status_id # NULL THEN Str(contact.status_id) ELSE None
        old_position  == contact.sort_order_in_status
        new_position  == request.position
    IN  IF old_status_id = request.status_id
        THEN IF old_position < new_position
             THEN <<StmtMoveDown(request.status_id, old_position, new_position)>>
             ELSE IF old_position > new_position
                  THEN <<StmtMoveUp(request.status_id, old_position, new_position)>>
                  ELSE <<>>
        ELSE <<StmtMakeRoom(request.status_id, new_position)>>

\* The statements move_contact issues for a request, in program order, given
\* the Contact it loaded (kanban.py lines 67-117).
Statements(request, contact) ==
    LET old_status_id == IF contact.status_id # NULL THEN Str(contact.status_id) ELSE None
        old_position  == contact.sort_order_in_status
        new_position  == request.position
    IN  IF old_status_id = request.status_id
        THEN IF old_position < new_position
             THEN <<StmtMoveDown(request.status_id, old_position, new_position)>>
             ELSE IF old_position > new_position
                  THEN <<StmtMoveUp(request.status_id, old_position, new_position)>>
                  ELSE <<>>
        ELSE (IF old_status_id # None
              THEN <<StmtCloseGap(old_status_id, old_position)>>
              ELSE <<>>)
             \o <<StmtMakeRoom(request.status_id, new_position)>>

\* A flush that writes the new position and leaves status_id alone.
FlushPositionOnly(rows, id, obj, request) ==
    IF id \notin DOMAIN rows THEN rows
    ELSE [rows EXCEPT ![id].sort_order_in_status = request.position]

\* The unit of work flushed at db.commit(): the attributes of the loaded
\* Contact that the assignments of lines 120-121 changed; an attribute set
\* to the value it already has is not written.
Flush(rows, id, obj, request) ==
    LET target == [status_id |-> UUID(request.status_id),
                   sort_order_in_status |-> request.position]
    IN  IF id \notin DOMAIN rows THEN rows
        ELSE [rows EXCEPT
                ![id] = [status_id |-> IF target.status_id # obj.status_id
                                        THEN target.status_id ELSE @.status_id,
                         sort_order_in_status |->
                             IF target.sort_order_in_status # obj.sort_order_in_status
                             THEN target.sort_order_in_status
                             ELSE @.sort_order_in_status]]

\* Statements i..Len(stmts) executed in order on the table.
RECURSIVE ExecuteFrom(_, _, _)
ExecuteFrom(rows, stmts, i) ==
    IF i > Len(stmts) THEN rows ELSE ExecuteFrom(Execute(rows, stmts[i]), stmts, i + 1)

\* The loaded Contact after statements i..Len(stmts).
RECURSIVE SynchronizeFrom(_, _, _)
SynchronizeFrom(obj, stmts, i) ==
    IF i > Len(stmts) THEN obj ELSE SynchronizeFrom(Synchronize(obj, stmts[i]), stmts, i + 1)

\* move_contact with the status looked up only after the sibling UPDATEs
\* were issued and committed.
move_contact_late_check(rows, sts, request) ==
    LET id == UUID(request.contact_id) IN
    IF id \notin DOMAIN rows
    THEN [contacts |-> rows, resp |-> ContactNotFoundError("move", request.contact_id)]
    ELSE LET contact == rows[id]
             stmts   == Statements(request, contact)
             shifted == ExecuteFrom(rows, stmts, 1)
             obj     == SynchronizeFrom(contact, stmts, 1)
         IN  IF UUID(request.status_id) \notin sts
             THEN [contacts |-> shifted,
                   resp |-> StatusNotFoundError("move", request.status_id)]
             ELSE [contacts |-> Flush(shifted, id, obj, request),
                   resp     |-> KanbanMoveResponse(request.contact_id, request.status_id,
                                                   request.position)]

\* move_contact with the target position validated against the size of the
\* target column: a position beyond the end is rejected before any write.
move_contact_range_checked(rows, sts, request) ==
    LET id == UUID(request.contact_id) IN
    IF id \notin DOMAIN rows
    THEN [contacts |-> rows, resp |-> ContactNotFoundError("move", request.contact_id)]
    ELSE IF UUID(request.status_id) \notin sts
    THEN [contacts |-> rows, resp |-> StatusNotFoundError("move", request.status_id)]
    ELSE IF request.position >
              Cardinality({c \in DOMAIN rows \ {id} : rows[c].status_id = UUID(request.status_id)})
    THEN [contacts |-> rows,
          resp |-> [op |-> "move", kind |-> "ValidationError", id |-> request.contact_id,
                    status_id |-> request.status_id, sort_order_in_status |-> request.position]]
    ELSE LET contact == rows[id]
             stmts   == Statements(request, contact)
             shifted == ExecuteFrom(rows, stmts, 1)
             obj     == SynchronizeFrom(contact, stmts, 1)
         IN  [contacts |-> Flush(shifted, id, obj, request),
              resp     |-> KanbanMoveResponse(request.contact_id, request.status_id,
                                              request.position)]

\* move_contact as one uninterrupted call: the table it commits and what it
\* returns or raises.
move_contact(rows, sts, request) ==
    LET id == UUID(request.contact_id) IN
    IF id \notin DOMAIN rows
    THEN [contacts |-> rows, resp |-> ContactNotFoundError("move", request.contact_id)]
    ELSE IF UUID(request.status_id) \notin sts
    THEN [contacts |-> rows, resp |-> StatusNotFoundError("move", request.status_id)]
    ELSE LET contact == rows[id]
             stmts   == Statements(request, contact)
             shifted == ExecuteFrom(rows, stmts, 1)
             obj     == SynchronizeFrom(contact, stmts, 1)
         IN  [contacts |-> Flush(shifted, id, obj, request),
              resp     |-> KanbanMoveResponse(request.contact_id, request.status_id,
                                              request.position)]

\* ------------------------------------------------------------- sessions
\* Requests handled at the same time, each with the session get_db yields.
Sessions == {1, 2}

NoRequest == [contact_id |-> None, status_id |-> None, position |-> 0]
NoRows == [c \in {} |-> NULL]

\* AsyncSessionLocal(): a session with no transaction begun.
\*   pc       "idle", "run" (inside move_contact), "done" (returned) or
\*            "failed" (raised)
\*   contact  the Contact object the handler loaded
\*   stmts    the UPDATE statements still to execute
\*   scanning the first of them has taken its snapshot and not yet finished
\*   cand     the rows that satisfied its WHERE clause in that snapshot
\*   writes   the row versions the open transaction wrote and holds locked
\*   rolled_back  history: the row versions its last rollback discarded
NewSession ==
    [pc |-> "idle", request |-> NoRequest,
     contact |-> [status_id |-> NULL, sort_order_in_status |-> 0],
     stmts |-> <<>>, scanning |-> FALSE, cand |-> {}, writes |-> NoRows,
     rolled_back |-> NoRows]

\* ------------------------------------------------------- initial states
\* The contacts of one status column.
Column(rows, s) == {c \in DOMAIN rows : rows[c].status_id = s}

\* The sort_order_in_status values of a column are exactly 0..N-1.
Dense(rows, s) ==
    /\ \A c, d \in Column(rows, s) :
          c # d => rows[c].sort_order_in_status # rows[d].sort_order_in_status
    /\ \A c \in Column(rows, s) : rows[c].sort_order_in_status < Cardinality(Column(rows, s))

\* Tables in which every status column is dense and the contacts without a
\* status carry the column default 0 (Contact.sort_order_in_status default).
DenseTables ==
    {t \in UNION {[S -> ContactRow] : S \in SUBSET ContactIds} :
        /\ \A s \in StatusIds : Dense(t, s)
        /\ \A c \in Column(t, NULL) : t[c].sort_order_in_status = 0}

\* The statuses table: the migration seeds the default statuses; the model
\* keeps two of them.
InitialStatuses == {"s1", "s2"}

Init ==
    /\ contacts \in {t \in DenseTables : \A c \in DOMAIN t : t[c].status_id \in InitialStatuses \cup {NULL}}
    /\ statuses = InitialStatuses
    /\ resp = NoResponse
    /\ before = contacts
    /\ in_range_moves = TRUE
    /\ round_trip = NoRoundTrip
    /\ session = [p \in Sessions |-> NewSession]
    /\ associations = EmptyBag
    /\ cluster_id = [c \in {} |-> 0]
    /\ before_associations = EmptyBag
    /\ passes = 0
    /\ NotBootstrapped

\* ------------------------------------------------------------- histories
\* The target position of a request lies inside the target column: at most
\* N-1 when the contact already is in that column of N contacts, at most N
\* when it joins a column of N contacts.
InRangeTarget(rows, request) ==
    LET id == UUID(request.contact_id)
        n  == Cardinality(Column(rows, UUID(request.status_id)))
    IN  IF rows[id].status_id = UUID(request.status_id)
        THEN request.position <= n - 1
        ELSE request.position <= n

\* The request undoes the last call: that call moved the same contact inside
\* the same column, and the request names the position it was taken from.
Reverses(request) ==
    /\ resp.op = "move" /\ resp.kind = "ok"
    /\ resp.id = request.contact_id
    /\ UUID(resp.status_id) = UUID(request.status_id)
    /\ before[UUID(resp.id)].status_id = UUID(resp.status_id)
    /\ request.position = before[UUID(resp.id)].sort_order_in_status

\* -------------------------------------------------------------- actions
\* Every row of the table stays within the modelled range of positions.
InRange(rows) == \A c \in DOMAIN rows : rows[c].sort_order_in_status \in Positions

\* POST /kanban/move handled from request to response.
Move ==
    \E request \in KanbanMoveRequest :
    \E r \in {move_contact(contacts, statuses, request)} :
        /\ InRange(r.contacts)
        /\ contacts' = r.contacts
        /\ resp' = r.resp
        /\ before' = contacts
        /\ in_range_moves' = (in_range_moves /\ (r.resp.kind = "ok" => InRangeTarget(contacts, request)))
        /\ round_trip' = IF r.resp.kind = "ok" /\ Reverses(request)
                         THEN [valid |-> TRUE, rows |-> before]
                         ELSE NoRoundTrip
        /\ UNCHANGED <<statuses, session>>
        /\ UNCHANGED graph
        /\ UNCHANGED auth

Next == Move

\* Sequential move calls on a board whose columns start dense.
Spec == Init /\ [][Next]_vars

\* ----------------------------------------- contact creation and the board
\* _process_status for a status given by id (a str, or a StatusInput whose
\* id is not a temp id): None stays None, an id of no row raises.
ProcessStatus(sts, status_id) ==
    IF status_id = None THEN [ok |-> TRUE, status_id |-> NULL]
    ELSE IF UUID(status_id) \notin sts THEN [ok |-> FALSE, status_id |-> NULL]
    ELSE [ok |-> TRUE, status_id |-> UUID(status_id)]

\* ------------------------------------------------ contact_associations
\* Exceptions that are no APIError; the handler of main.py reports each as
\* 500 INTERNAL_ERROR and get_db rolls the transaction back.
\* sqlalchemy.exc.IntegrityError: the flush violated a constraint.
IntegrityError(op) ==
    [op |-> op, kind |-> "IntegrityError", id |-> None, status_id |-> None,
     sort_order_in_status |-> 0]
\* sqlalchemy.exc.MultipleResultsFound of scalar_one_or_none.
MultipleResultsFound(op) ==
    [op |-> op, kind |-> "MultipleResultsFound", id |-> None, status_id |-> None,
     sort_order_in_status |-> 0]

\* A row of contact_associations, without its generated id, label and
\* created_at: (source_contact_id, target_contact_id).
Association(source, target) == <<source, target>>

\* ForeignKey("contacts.id") of both columns: the endpoints are rows of contacts.
ForeignKey(rows, a) == a[1] \in DOMAIN rows /\ a[2] \in DOMAIN rows
\* A table without the check on its two columns.
CheckConstraintMissing(a) == TRUE
\* CheckConstraint check_no_self_association.
CheckConstraint(a) == a[1] # a[2]
\* A unique index on the unordered pair.
UniqueConstraintSymmetric(assocs, a) ==
    ~BagIn(a, assocs) /\ ~BagIn(Association(a[2], a[1]), assocs)
\* UniqueConstraint uq_contact_association on the ordered pair.
UniqueConstraint(assocs, a) == ~BagIn(a, assocs)

\* The INSERTs of a flush, for the pending ContactAssociation objects from
\* the i-th on: the table with the rows added, or the IntegrityError of the
\* first row a constraint rejects.
RECURSIVE InsertFrom(_, _, _, _)
InsertFrom(rows, assocs, pending, i) ==
    IF i > Len(pending) THEN [ok |-> TRUE, associations |-> assocs]
    ELSE IF /\ ForeignKey(rows, pending[i])
            /\ CheckConstraint(pending[i])
            /\ UniqueConstraint(assocs, pending[i])
         THEN InsertFrom(rows, assocs (+) SetToBag({pending[i]}), pending, i + 1)
         ELSE [ok |-> FALSE, associations |-> assocs]

\* ON DELETE CASCADE and the delete cascade of Contact.source_associations
\* and Contact.target_associations: the rows left when contacts loses id.
Cascade(assocs, id) ==
    [a \in {b \in BagToSet(assocs) : b[1] # id /\ b[2] # id} |-> assocs[a]]

\* sql_delete(ContactAssociation).where(source_contact_id == id).
DeleteWhereSource(assocs, id) ==
    [a \in {b \in BagToSet(assocs) : b[1] # id} |-> assocs[a]]

\* A create that puts the new contact at the end of its status column.
create_contact_appending(rows, assocs, sts, id, status_id, association_contact_ids) ==
    LET processed == ProcessStatus(sts, status_id) IN
    IF ~processed.ok
    THEN [contacts |-> rows, associations |-> assocs,
          resp |-> StatusNotFoundError("create_contact", status_id)]
    ELSE LET last     == IF processed.status_id = NULL THEN 0
                         ELSE Cardinality({c \in DOMAIN rows :
                                              rows[c].status_id = processed.status_id})
             inserted == [c \in DOMAIN rows \cup {id} |->
                            IF c = id
                            THEN [status_id |-> processed.status_id,
                                  sort_order_in_status |-> last]
                            ELSE rows[c]]
         IN  [contacts |-> inserted, associations |-> assocs,
              resp |-> [op |-> "create_contact", kind |-> "ok", id |-> Str(id),
                        status_id |-> status_id, sort_order_in_status |-> last]]

\* create_contact: the row db.add(contact) inserts; sort_order_in_status is
\* not passed and takes the column default 0.  One ContactAssociation from
\* the new contact to every id of association_contact_ids is added and
\* flushed; an IntegrityError leaves the transaction to the rollback of
\* get_db.
create_contact(rows, assocs, sts, id, status_id, association_contact_ids) ==
    LET processed == ProcessStatus(sts, status_id) IN
    IF ~processed.ok
    THEN [contacts |-> rows, associations |-> assocs,
          resp |-> StatusNotFoundError("create_contact", status_id)]
    ELSE LET inserted == [c \in DOMAIN rows \cup {id} |->
                            IF c = id
                            THEN [status_id |-> processed.status_id, sort_order_in_status |-> 0]
                            ELSE rows[c]]
             pending  == [i \in 1..Len(association_contact_ids) |->
                            Association(id, association_contact_ids[i])]
             flushed  == InsertFrom(inserted, assocs, pending, 1)
         IN  IF ~flushed.ok
             THEN [contacts |-> rows, associations |-> assocs,
                   resp |-> IntegrityError("create_contact")]
             ELSE [contacts |-> inserted, associations |-> flushed.associations,
                   resp |-> [op |-> "create_contact", kind |-> "ok", id |-> Str(id),
                             status_id |-> status_id, sort_order_in_status |-> 0]]

\* The cluster labels of the rows of a table: a row that is new has none.
Labels(rows, labels) == [c \in DOMAIN rows \cap DOMAIN labels |-> labels[c]]

\* POST /contacts handled from request to response; the id is the fresh
\* uuid4 of the column default, association_contact_ids the empty default.
CreateContact ==
    \E id \in ContactIds \ DOMAIN contacts :
    \E status_id \in {None} \cup {IdString(s, f) : s \in StatusIds, f \in Forms} :
    \E r \in {create_contact(contacts, associations, statuses, id, status_id, <<>>)} :
        /\ contacts' = r.contacts
        /\ resp' = r.resp
        /\ before' = contacts
        /\ round_trip' = NoRoundTrip
        /\ associations' = r.associations
        /\ cluster_id' = Labels(r.contacts, cluster_id)
        /\ before_associations' = associations
        /\ passes' = 0
        /\ UNCHANGED <<statuses, in_range_moves, session>>
        /\ UNCHANGED auth

\* The database after the migrations: the seeded statuses and no contact.
InitCrm ==
    /\ contacts = [c \in {} |-> NULL]
    /\ statuses = InitialStatuses
    /\ resp = NoResponse
    /\ before = contacts
    /\ in_range_moves = TRUE
    /\ round_trip = NoRoundTrip
    /\ session = [p \in Sessions |-> NewSession]
    /\ associations = EmptyBag
    /\ cluster_id = [c \in {} |-> 0]
    /\ before_associations = EmptyBag
    /\ passes = 0
    /\ NotBootstrapped

NextCrm == CreateContact \/ Move

\* Sequential calls of the contact and Kanban handlers from the empty board.
SpecCrm == InitCrm /\ [][NextCrm]_vars

\* ------------------------------------------------ the relationship graph
\* A string that uuid.UUID() rejects with ValueError.
Invalid == IdString(NULL, "invalid")
IsUUID(s) == s.form \in Forms

\* EdgeResponse(id, source_id, target_id, label, created_at).
EdgeResponse(source, target) ==
    [op |-> "create_edge", kind |-> "ok", source_id |-> Str(source), target_id |-> Str(target)]

GraphEdgeExistsError(source_id, target_id) ==
    [op |-> "create_edge", kind |-> "GraphEdgeExistsError",
     source_id |-> source_id, target_id |-> target_id]

GraphEdgeNotFoundError(edge) ==
    [op |-> "delete_edge", kind |-> "GraphEdgeNotFoundError", edge |-> edge]

\* The rows the either-direction SELECT of create_edge returns.
Existing(assocs, source, target) ==
    CopiesIn(Association(source, target), assocs)
        + (IF source # target THEN CopiesIn(Association(target, source), assocs) ELSE 0)

\* create_edge: the table it leaves to the commit of get_db and what it
\* returns or raises.  scalar_one_or_none raises MultipleResultsFound when
\* the SELECT returns two rows.
create_edge(rows, assocs, source_id, target_id) ==
    IF ~IsUUID(source_id) \/ ~IsUUID(target_id)
    THEN [associations |-> assocs, resp |-> ContactNotFoundError("create_edge", source_id)]
    ELSE LET source_uuid == UUID(source_id)
             target_uuid == UUID(target_id)
         IN  IF source_uuid \notin DOMAIN rows
             THEN [associations |-> assocs,
                   resp |-> ContactNotFoundError("create_edge", Str(source_uuid))]
             ELSE IF target_uuid \notin DOMAIN rows
             THEN [associations |-> assocs,
                   resp |-> ContactNotFoundError("create_edge", Str(target_uuid))]
             ELSE IF Existing(assocs, source_uuid, target_uuid) > 1
             THEN [associations |-> assocs, resp |-> MultipleResultsFound("create_edge")]
             ELSE IF Existing(assocs, source_uuid, target_uuid) = 1
             THEN [associations |-> assocs, resp |-> GraphEdgeExistsError(source_id, target_id)]
             ELSE LET flushed == InsertFrom(rows, assocs,
                                            <<Association(source_uuid, target_uuid)>>, 1)
                  IN  IF ~flushed.ok
                      THEN [associations |-> assocs, resp |-> IntegrityError("create_edge")]
                      ELSE [associations |-> flushed.associations,
                            resp |-> EdgeResponse(source_uuid, target_uuid)]

\* delete_edge, the edge named by the row its id selects (none when no row
\* has the id).
delete_edge(assocs, edge) ==
    IF ~BagIn(edge, assocs)
    THEN [associations |-> assocs, resp |-> GraphEdgeNotFoundError(edge)]
    ELSE [associations |-> assocs (-) SetToBag({edge}),
          resp |-> [op |-> "delete_edge", kind |-> "ok", edge |-> edge]]

\* association_contact_ids of update_contact: None, or a list of ids.
NotProvided == [given |-> FALSE, ids |-> <<>>]
Provided(ids) == [given |-> TRUE, ids |-> ids]

\* An update that, like a move, closes the gap in the old column and puts
\* the contact at the end of the new one.
update_contact_reindexing(rows, assocs, sts, contact_id, status_id, association_contact_ids) ==
    LET id == UUID(contact_id) IN
    IF id \notin DOMAIN rows
    THEN [contacts |-> rows, associations |-> assocs,
          resp |-> ContactNotFoundError("update_contact", contact_id)]
    ELSE LET processed == ProcessStatus(sts, status_id) IN
         IF ~processed.ok
         THEN [contacts |-> rows, associations |-> assocs,
               resp |-> StatusNotFoundError("update_contact", status_id)]
         ELSE LET updated ==
                      IF status_id # None /\ processed.status_id # rows[id].status_id
                      THEN [c \in DOMAIN rows |->
                              IF c = id
                              THEN [status_id |-> processed.status_id,
                                    sort_order_in_status |->
                                        Cardinality(Column(rows, processed.status_id))]
                              ELSE IF /\ rows[id].status_id # NULL
                                      /\ rows[c].status_id = rows[id].status_id
                                      /\ rows[c].sort_order_in_status > rows[id].sort_order_in_status
                                   THEN [rows[c] EXCEPT !.sort_order_in_status = @ - 1]
                                   ELSE rows[c]]
                      ELSE rows
              IN  [contacts |-> updated, associations |-> assocs,
                   resp |-> [op |-> "update_contact", kind |-> "ok", id |-> contact_id,
                             status_id |-> status_id,
                             sort_order_in_status |-> updated[id].sort_order_in_status]]

\* update_contact called with status_id and association_contact_ids: the
\* status is assigned when given; when a list is given, the associations
\* whose source is the contact are deleted and one association from the
\* contact to every id of the list is added; then everything is flushed.
update_contact(rows, assocs, sts, contact_id, status_id, association_contact_ids) ==
    LET id == UUID(contact_id) IN
    IF id \notin DOMAIN rows
    THEN [contacts |-> rows, associations |-> assocs,
          resp |-> ContactNotFoundError("update_contact", contact_id)]
    ELSE LET processed == ProcessStatus(sts, status_id) IN
         IF ~processed.ok
         THEN [contacts |-> rows, associations |-> assocs,
               resp |-> StatusNotFoundError("update_contact", status_id)]
         ELSE LET updated == IF status_id # None
                             THEN [rows EXCEPT ![id].status_id = processed.status_id]
                             ELSE rows
                  ids     == association_contact_ids.ids
                  pending == [i \in 1..Len(ids) |-> Association(id, ids[i])]
                  flushed == IF association_contact_ids.given
                             THEN InsertFrom(updated, DeleteWhereSource(assocs, id), pending, 1)
                             ELSE [ok |-> TRUE, associations |-> assocs]
              IN  IF ~flushed.ok
                  THEN [contacts |-> rows, associations |-> assocs,
                        resp |-> IntegrityError("update_contact")]
                  ELSE [contacts |-> updated, associations |-> flushed.associations,
                        resp |-> [op |-> "update_contact", kind |-> "ok", id |-> contact_id,
                                  status_id |-> status_id,
                                  sort_order_in_status |-> updated[id].sort_order_in_status]]

\* A delete that relies on the source side of the relationships only.
delete_contact_source_side(rows, assocs, contact_id) ==
    LET id == UUID(contact_id) IN
    IF id \notin DOMAIN rows
    THEN [contacts |-> rows, associations |-> assocs,
          resp |-> ContactNotFoundError("delete_contact", contact_id)]
    ELSE [contacts |-> [c \in DOMAIN rows \ {id} |-> rows[c]],
          associations |-> DeleteWhereSource(assocs, id),
          resp |-> [op |-> "delete_contact", kind |-> "ok", id |-> contact_id,
                    status_id |-> None, sort_order_in_status |-> 0]]

\* A delete that closes the gap the contact leaves in its column.
delete_contact_compacting(rows, assocs, contact_id) ==
    LET id == UUID(contact_id) IN
    IF id \notin DOMAIN rows
    THEN [contacts |-> rows, associations |-> assocs,
          resp |-> ContactNotFoundError("delete_contact", contact_id)]
    ELSE [contacts |-> [c \in DOMAIN rows \ {id} |->
                           IF /\ rows[id].status_id # NULL
                              /\ rows[c].status_id = rows[id].status_id
                              /\ rows[c].sort_order_in_status > rows[id].sort_order_in_status
                           THEN [rows[c] EXCEPT !.sort_order_in_status = @ - 1]
                           ELSE rows[c]],
          associations |-> Cascade(assocs, id),
          resp |-> [op |-> "delete_contact", kind |-> "ok", id |-> contact_id,
                    status_id |-> None, sort_order_in_status |-> 0]]

\* delete_contact: db.delete(contact) with the cascade to its associations.
delete_contact(rows, assocs, contact_id) ==
    LET id == UUID(contact_id) IN
    IF id \notin DOMAIN rows
    THEN [contacts |-> rows, associations |-> assocs,
          resp |-> ContactNotFoundError("delete_contact", contact_id)]
    ELSE [contacts |-> [c \in DOMAIN rows \ {id} |-> rows[c]],
          associations |-> Cascade(assocs, id),
          resp |-> [op |-> "delete_contact", kind |-> "ok", id |-> contact_id,
                    status_id |-> None, sort_order_in_status |-> 0]]

\* The lists of contact ids a request may carry as association_contact_ids.
AssociationIdLists ==
    {<<>>} \cup {<<a>> : a \in ContactIds} \cup {<<a, b>> : a, b \in ContactIds}

\* What every graph handler call leaves of the histories; the cluster labels
\* follow the rows of contacts.
Served(r) ==
    /\ resp' = r.resp
    /\ associations' = r.associations
    /\ before' = contacts
    /\ before_associations' = associations
    /\ passes' = 0
    /\ round_trip' = NoRoundTrip
    /\ UNCHANGED <<statuses, in_range_moves, session>>
    /\ UNCHANGED auth

\* POST /contacts with association_contact_ids, without a status or with
\* the first of the seeded statuses.
CreateContactAssociated ==
    \E id \in ContactIds \ DOMAIN contacts :
    \E ids \in AssociationIdLists :
    \E status_id \in {None, Str("s1")} :
    \E r \in {create_contact(contacts, associations, statuses, id, status_id, ids)} :
        /\ contacts' = r.contacts
        /\ cluster_id' = Labels(r.contacts, cluster_id)
        /\ Served(r)

\* PUT /contacts/{id} with association_contact_ids, given or not, and no status.
UpdateContact ==
    \E id \in ContactIds :
    \E ids \in {NotProvided} \cup {Provided(l) : l \in AssociationIdLists} :
    \E r \in {update_contact(contacts, associations, statuses, Str(id), None, ids)} :
        /\ contacts' = r.contacts
        /\ cluster_id' = Labels(r.contacts, cluster_id)
        /\ Served(r)

\* POST /graph/edge.
CreateEdge ==
    \E source_id, target_id \in {Str(c) : c \in ContactIds} \cup {Invalid} :
    \E r \in {create_edge(contacts, associations, source_id, target_id)} :
        /\ UNCHANGED <<contacts, cluster_id>>
        /\ Served(r)

\* DELETE /graph/edge/{edge_id}.
DeleteEdge ==
    \E source, target \in ContactIds :
    \E r \in {delete_edge(associations, Association(source, target))} :
        /\ UNCHANGED <<contacts, cluster_id>>
        /\ Served(r)

\* DELETE /contacts/{id}.
DeleteContact ==
    \E id \in ContactIds :
    \E r \in {delete_contact(contacts, associations, Str(id))} :
        /\ contacts' = r.contacts
        /\ cluster_id' = Labels(r.contacts, cluster_id)
        /\ Served(r)

\* ValueError of uuid.UUID() outside any try: reported as 500 by main.py.
ValueError(op) ==
    [op |-> op, kind |-> "ValueError", id |-> None, status_id |-> None,
     sort_order_in_status |-> 0]

\* pydantic ValidationError of a model built without one of its required
\* fields: no APIError, reported as 500 by main.py; the record keeps the
\* fields that were passed.
ValidationError(op, fields) ==
    [op |-> op, kind |-> "ValidationError", nodes |-> fields.nodes, edges |-> fields.edges]

\* GraphResponse(**fields): nodes, edges and clusters are required, none has
\* a default.  The nodes are kept as the set of their ids, the edges as the
\* bag of their (source_id, target_id).
GraphResponse(fields) ==
    IF {"nodes", "edges", "clusters"} \subseteq DOMAIN fields
    THEN [op |-> "get_graph", kind |-> "ok", nodes |-> fields.nodes, edges |-> fields.edges,
          clusters |-> fields.clusters]
    ELSE ValidationError("get_graph", fields)

\* A filter on tags, interests, occupations or positions: not given, or
\* given, with the contact ids its join SELECT returned.
NoJoin == [given |-> FALSE, ids |-> {}]
Joined(ids) == [given |-> TRUE, ids |-> ids]

\* contact_ids_to_filter after two join filters: None while no filter was
\* given, else the intersection of the id sets of those given.
ContactIdsToFilter(first, second) ==
    IF ~first.given THEN second
    ELSE IF ~second.given THEN first
    ELSE Joined(first.ids \cap second.ids)

\* The GraphEdge list built from the associations a SELECT returned.
GraphEdges(assocs, selected) ==
    [e \in {<<Str(a[1]), Str(a[2])>> : a \in selected} |->
        assocs[Association(UUID(e[1]), UUID(e[2]))]]

\* get_graph with a status filter (status_id, else status_ids) and two join
\* filters: what it returns or raises.  It passes nodes and edges to
\* GraphResponse, and nothing else.
get_graph(rows, assocs, status_id, status_ids, tag_contact_ids, interest_contact_ids) ==
    IF status_id # None /\ ~IsUUID(status_id) THEN ValueError("get_graph")
    ELSE IF status_id = None /\ (\E i \in DOMAIN status_ids : ~IsUUID(status_ids[i]))
    THEN ValueError("get_graph")
    ELSE LET by_status ==
                 IF status_id # None
                 THEN {c \in DOMAIN rows : rows[c].status_id = UUID(status_id)}
                 ELSE IF status_ids # <<>>
                 THEN {c \in DOMAIN rows :
                          \E i \in DOMAIN status_ids : rows[c].status_id = UUID(status_ids[i])}
                 ELSE DOMAIN rows
             contact_ids_to_filter == ContactIdsToFilter(tag_contact_ids, interest_contact_ids)
         IN  IF contact_ids_to_filter.given /\ contact_ids_to_filter.ids = {}
             THEN GraphResponse([nodes |-> {}, edges |-> EmptyBag])
             ELSE LET contact_id_set ==
                          IF contact_ids_to_filter.given
                          THEN by_status \cap contact_ids_to_filter.ids
                          ELSE by_status
                      selected == {a \in BagToSet(assocs) :
                                      a[1] \in contact_id_set \/ a[2] \in contact_id_set}
                  IN  GraphResponse(
                          [nodes |-> {Str(c) : c \in contact_id_set},
                           edges |-> GraphEdges(assocs,
                                                {a \in selected : a[1] \in contact_id_set
                                                                  /\ a[2] \in contact_id_set})])

\* The status filters a request may carry: status_id and status_ids.
StatusFilters ==
    {<<None, <<>>>>, <<Str("s1"), <<Str("s2")>>>>,
     <<None, <<IdString("s1", "other"), Str("s2")>>>>,
     <<Invalid, <<>>>>, <<None, <<Invalid>>>>}

\* GET /graph: the join filters return ids of rows of contacts.
GetGraph ==
    \E status \in StatusFilters :
    \E tag_contact_ids \in {NoJoin} \cup {Joined(ids) : ids \in SUBSET DOMAIN contacts} :
    \E interest_contact_ids \in {NoJoin, Joined(DOMAIN contacts \ {"c1"})} :
        /\ resp' = get_graph(contacts, associations, status[1], status[2],
                             tag_contact_ids, interest_contact_ids)
        /\ before' = contacts
        /\ before_associations' = associations
        /\ round_trip' = NoRoundTrip
        /\ UNCHANGED <<contacts, statuses, in_range_moves, session, associations,
                       cluster_id, passes>>
                       /\ UNCHANGED auth

NextGraph ==
    \/ GetGraph
    \/ CreateContactAssociated
    \/ UpdateContact
    \/ CreateEdge
    \/ DeleteEdge
    \/ DeleteContact

\* Sequential calls of the contact and graph handlers from the empty tables.
SpecGraph == InitCrm /\ [][NextGraph]_vars

\* ------------------------------------------- the board under every handler
\* HTTPException(status_code=409) of delete_status.
HTTPException(op, status_code, status_id) ==
    [op |-> op, kind |-> "HTTPException", status_code |-> status_code,
     id |-> None, status_id |-> status_id, sort_order_in_status |-> 0]

\* A delete that does not count the contacts using the status.
delete_status_unchecked(rows, sts, status_id) ==
    IF UUID(status_id) \notin sts
    THEN [statuses |-> sts, resp |-> StatusNotFoundError("delete_status", status_id)]
    ELSE [statuses |-> sts \ {UUID(status_id)},
          resp |-> [op |-> "delete_status", kind |-> "ok", id |-> None,
                    status_id |-> status_id, sort_order_in_status |-> 0]]

\* delete_status: the statuses table it leaves and what it returns or
\* raises; the path parameter is compared as a uuid by the database.
delete_status(rows, sts, status_id) ==
    IF UUID(status_id) \notin sts
    THEN [statuses |-> sts, resp |-> StatusNotFoundError("delete_status", status_id)]
    ELSE LET contact_count == Cardinality(Column(rows, UUID(status_id))) IN
         IF contact_count > 0
         THEN [statuses |-> sts, resp |-> HTTPException("delete_status", 409, status_id)]
         ELSE [statuses |-> sts \ {UUID(status_id)},
               resp |-> [op |-> "delete_status", kind |-> "ok", id |-> None,
                         status_id |-> status_id, sort_order_in_status |-> 0]]

\* DELETE /statuses/{status_id}.
DeleteStatus ==
    \E status_id \in {IdString(s, f) : s \in StatusIds, f \in Forms} :
    \E r \in {delete_status(contacts, statuses, status_id)} :
        /\ statuses' = r.statuses
        /\ resp' = r.resp
        /\ before' = contacts
        /\ before_associations' = associations
        /\ passes' = 0
        /\ round_trip' = NoRoundTrip
        /\ UNCHANGED <<contacts, in_range_moves, session, associations, cluster_id>>
        /\ UNCHANGED auth

\* PATCH /contacts/{id} with a status_id, given or not, and no
\* association_contact_ids.
UpdateContactStatus ==
    \E id \in ContactIds :
    \E status_id \in {None} \cup {IdString(s, f) : s \in StatusIds, f \in Forms} :
    \E r \in {update_contact(contacts, associations, statuses, Str(id), status_id, NotProvided)} :
        /\ contacts' = r.contacts
        /\ cluster_id' = Labels(r.contacts, cluster_id)
        /\ Served(r)

NextBoard ==
    \/ CreateContact
    \/ UpdateContactStatus
    \/ DeleteContact
    \/ DeleteStatus

\* Sequential calls of the contact and status handlers on a board whose
\* columns start dense.
SpecBoard == Init /\ [][NextBoard]_vars

\* ------------------------------------------------------- the bootstrap
\* The emails a BootstrapRequest may carry and the ids Supabase Auth gives
\* the users it creates.
Emails == {"e1", "e2"}
UserIds == {"u1", "u2"}

\* A row of app_owner: the insert of bootstrap_owner passes id,
\* supabase_user_id and email.
AppOwner(id, user_id, email) == [id |-> id, user_id |-> user_id, email |-> email]

\* A table whose id column is no key.
PrimaryKeyMissing(table, row) == TRUE
\* primary_key=True of AppOwner.id.
PrimaryKey(table, row) == \A r \in BagToSet(table) : r.id # row.id
\* CheckConstraint app_owner_single_row.
SingleRow(row) == row.id = 1
\* unique=True of AppOwner.user_id.
UniqueUserId(table, row) == \A r \in BagToSet(table) : r.user_id # row.user_id

\* AuthAlreadyInitializedError, 409.
AuthAlreadyInitializedError ==
    [op |-> "bootstrap", kind |-> "AuthAlreadyInitializedError"]

\* AuthTokenResponse(user, access_token, refresh_token, ...).
AuthTokenResponse(user_id, email) ==
    [op |-> "bootstrap", kind |-> "ok", user_id |-> user_id, email |-> email]

\* check_bootstrap_status: the SELECT of one app_owner row returned a row.
check_bootstrap_status(table) == BagCardinality(table) > 0

\* A POST /auth/bootstrap request and where bootstrap_owner stands:
\*   pc       "idle", "check", "create_user", "insert", "sign_in", "done"
\*            (returned) or "failed" (raised)
\*   user_id  the id of the Supabase Auth user it created
\*   after_success  history: a bootstrap call had returned its tokens when
\*            the request arrived
NewBootstrapSession ==
    [pc |-> "idle", email |-> NULL, user_id |-> NULL, after_success |-> FALSE,
     outcome |-> NoResponse]

\* What bootstrap_owner never writes.
BootstrapFrame ==
    /\ UNCHANGED <<contacts, statuses, before, in_range_moves, round_trip, authorization>>
    /\ UNCHANGED graph

\* bootstrap_owner raises.
BootstrapRaise(p, error) ==
    /\ session' = [session EXCEPT ![p].pc = "failed", ![p].outcome = error]
    /\ resp' = error

\* POST /auth/bootstrap arrives.
BootstrapRequest(p) ==
    /\ session[p].pc \in {"idle", "done", "failed"}
    /\ \E email \in Emails :
          session' = [session EXCEPT
                         ![p] = [NewBootstrapSession EXCEPT
                                    !.pc = "check", !.email = email,
                                    !.after_success = bootstrapped]]
    /\ UNCHANGED <<resp, app_owner, auth_users, bootstrapped>>
    /\ BootstrapFrame

\* Lines 57-59: the application is initialized when app_owner has a row.
BootstrapCheck(p) ==
    /\ session[p].pc = "check"
    /\ IF check_bootstrap_status(app_owner)
       THEN BootstrapRaise(p, AuthAlreadyInitializedError)
       ELSE /\ session' = [session EXCEPT ![p].pc = "create_user"]
            /\ UNCHANGED resp
    /\ UNCHANGED <<app_owner, auth_users, bootstrapped>>
    /\ BootstrapFrame

\* Lines 62-75: supabase.auth.admin.create_user; Supabase Auth refuses an
\* email that is registered with AuthApiError, reported as InternalError.
BootstrapCreateUser(p) ==
    /\ session[p].pc = "create_user"
    /\ IF session[p].email \in DOMAIN auth_users
       THEN /\ BootstrapRaise(p, InternalError("bootstrap"))
            /\ UNCHANGED auth_users
       ELSE \E user_id \in {CHOOSE u \in UserIds :
                               \A e \in DOMAIN auth_users : auth_users[e] # u} :
               /\ auth_users' = [e \in DOMAIN auth_users \cup {session[p].email} |->
                                    IF e = session[p].email THEN user_id ELSE auth_users[e]]
               /\ session' = [session EXCEPT ![p].pc = "insert", ![p].user_id = user_id]
               /\ UNCHANGED resp
    /\ UNCHANGED <<app_owner, bootstrapped>>
    /\ BootstrapFrame

\* Lines 77-84: the insert of the app_owner row with id 1; a row the table
\* rejects raises, reported as InternalError by the handler of line 124.
BootstrapInsert(p) ==
    /\ session[p].pc = "insert"
    /\ \E row \in {AppOwner(1, session[p].user_id, session[p].email)} :
          IF PrimaryKey(app_owner, row) /\ SingleRow(row) /\ UniqueUserId(app_owner, row)
          THEN /\ app_owner' = app_owner (+) SetToBag({row})
               /\ session' = [session EXCEPT ![p].pc = "sign_in"]
               /\ UNCHANGED resp
          ELSE /\ BootstrapRaise(p, InternalError("bootstrap"))
               /\ UNCHANGED app_owner
    /\ UNCHANGED <<auth_users, bootstrapped>>
    /\ BootstrapFrame

\* Lines 86-117: sign_in_with_password returns a session, and the tokens
\* are returned, or returns none, and InternalError is raised.
BootstrapSignIn(p) ==
    /\ session[p].pc = "sign_in"
    /\ \E has_session \in BOOLEAN :
          IF has_session
          THEN /\ session' = [session EXCEPT
                                 ![p].pc = "done",
                                 ![p].outcome = AuthTokenResponse(session[p].user_id,
                                                                  session[p].email)]
               /\ resp' = AuthTokenResponse(session[p].user_id, session[p].email)
               /\ bootstrapped' = TRUE
          ELSE /\ BootstrapRaise(p, InternalError("bootstrap"))
               /\ UNCHANGED bootstrapped
    /\ UNCHANGED <<app_owner, auth_users>>
    /\ BootstrapFrame

\* The database after the migrations, with no owner and no request.
InitBootstrap ==
    /\ contacts = [c \in {} |-> NULL]
    /\ statuses = InitialStatuses
    /\ resp = NoResponse
    /\ before = contacts
    /\ in_range_moves = TRUE
    /\ round_trip = NoRoundTrip
    /\ session = [p \in Sessions |-> NewBootstrapSession]
    /\ associations = EmptyBag
    /\ cluster_id = [c \in {} |-> 0]
    /\ before_associations = EmptyBag
    /\ passes = 0
    /\ NotBootstrapped

\* POST /auth/bootstrap requests handled at the same time and one after
\* the other, each call of Supabase a step.
NextBootstrap ==
    \E p \in Sessions :
        \/ BootstrapRequest(p)
        \/ BootstrapCheck(p)
        \/ BootstrapCreateUser(p)
        \/ BootstrapInsert(p)
        \/ BootstrapSignIn(p)

SpecBootstrap == InitBootstrap /\ [][NextBootstrap]_vars

\* ------------------------------------------------ the protected endpoints
\* An Authorization header: absent (sent FALSE), or the words that split()
\* finds in it.
Header(parts) == [sent |-> TRUE, parts |-> parts]
NoHeader == [sent |-> FALSE, parts |-> <<>>]

\* A token string: one that is no JWT, or a JWT by whether its signature
\* verifies under jwt_secret_key, how its exp claim stands to the clock
\* ("none": no exp claim), its type claim ("none": no type claim) and its
\* sub claim (None: no sub claim).
Garbage ==
    [wellformed |-> FALSE, signed |-> FALSE, exp |-> "none", type |-> "none", sub |-> None]
Jwt(signed, exp, type, sub) ==
    [wellformed |-> TRUE, signed |-> signed, exp |-> exp, type |-> type, sub |-> sub]

\* The sub claims of the tokens sent: none, a string that is no UUID, the
\* ids of the two Supabase Auth users, one of them also in a spelling that
\* str() does not produce.
Subjects == {None, Invalid, Str("u1"), IdString("u1", "other"), Str("u2")}

\* The tokens sent.
Tokens ==
    {Garbage}
    \cup {Jwt(TRUE, exp, type, sub) : exp \in {"past", "future"},
                                      type \in {"access", "refresh"}, sub \in Subjects}
    \cup {Jwt(TRUE, "future", "none", sub) : sub \in Subjects}
    \cup {Jwt(TRUE, "none", "access", sub) : sub \in Subjects}
    \cup {Jwt(FALSE, exp, type, Str("u1")) : exp \in {"past", "future"},
                                             type \in {"access", "refresh"}}

\* The Authorization headers sent.
Authorizations ==
    {NoHeader, Header(<<>>), Header(<<"Bearer">>),
     Header(<<"Bearer", Jwt(TRUE, "future", "access", Str("u1")), "x">>)}
    \cup {Header(<<"Bearer", token>>) : token \in Tokens}
    \cup {Header(<<scheme, Jwt(TRUE, "future", "access", sub)>>) :
             scheme \in {"bearer", "Basic"}, sub \in {Str("u1"), Str("u2")}}

\* scheme.lower().
lower(scheme) ==
    IF scheme = "Bearer" THEN "bearer" ELSE IF scheme = "Basic" THEN "basic" ELSE scheme

\* extract_bearer_token: the second of exactly two words when the first is
\* "bearer" in any case, otherwise None.
extract_bearer_token(header) ==
    IF ~header.sent \/ header.parts = <<>> THEN [found |-> FALSE, token |-> Garbage]
    ELSE IF Len(header.parts) # 2 THEN [found |-> FALSE, token |-> Garbage]
    ELSE IF lower(header.parts[1]) # "bearer" THEN [found |-> FALSE, token |-> Garbage]
    ELSE [found |-> TRUE, token |-> header.parts[2]]

\* jwt.decode of python-jose: the signature is verified first, the exp
\* claim after it.
jwt_decode(token) ==
    IF ~token.wellformed \/ ~token.signed THEN "JWTError"
    ELSE IF token.exp = "past" THEN "ExpiredSignatureError"
    ELSE "payload"

\* The APIError a dependency raises.
AuthUnauthorizedError ==
    [op |-> "get_current_owner", kind |-> "AuthUnauthorizedError", status_code |-> 401,
     detail |-> ""]
AuthTokenExpiredError ==
    [op |-> "get_current_owner", kind |-> "AuthTokenExpiredError", status_code |-> 401,
     detail |-> ""]
AuthTokenInvalidError(detail) ==
    [op |-> "get_current_owner", kind |-> "AuthTokenInvalidError", status_code |-> 401,
     detail |-> detail]
AuthForbiddenError ==
    [op |-> "get_current_owner", kind |-> "AuthForbiddenError", status_code |-> 403,
     detail |-> ""]

\* What verify_jwt_token raises, or the TokenPayload it returns.
TokenExpiredError == [ok |-> FALSE, error |-> "TokenExpiredError", detail |-> "", sub |-> None]
TokenInvalidError(detail) ==
    [ok |-> FALSE, error |-> "TokenInvalidError", detail |-> detail, sub |-> None]
TokenPayload(sub) == [ok |-> TRUE, error |-> "none", detail |-> "", sub |-> sub]

\* verify_jwt_token that accepts a token of any type.
verify_jwt_token_any_type(token, expected_type) ==
    LET decoded == jwt_decode(token) IN
    IF decoded = "ExpiredSignatureError" THEN TokenExpiredError
    ELSE IF decoded = "JWTError" THEN TokenInvalidError("JWTError")
    ELSE IF token.sub = None THEN TokenInvalidError("Token missing 'sub' claim")
    ELSE TokenPayload(token.sub)

\* verify_jwt_token: the decoded token needs a sub claim and the expected
\* type, a token without a type claim counting as an access token.
verify_jwt_token(token, expected_type) ==
    LET decoded == jwt_decode(token)
        token_type == IF token.type = "none" THEN "access" ELSE token.type
    IN  IF decoded = "ExpiredSignatureError" THEN TokenExpiredError
        ELSE IF decoded = "JWTError" THEN TokenInvalidError("JWTError")
        ELSE IF token.sub = None THEN TokenInvalidError("Token missing 'sub' claim")
        ELSE IF token_type # expected_type THEN TokenInvalidError("Invalid token type")
        ELSE TokenPayload(token.sub)

\* What a dependency hands to the next: the error raised, or the value.
Raised(error) == [ok |-> FALSE, error |-> error, sub |-> None]
Resolved(sub) == [ok |-> TRUE, error |-> NoResponse, sub |-> sub]

\* get_token_payload.
get_token_payload(header) ==
    LET extracted == extract_bearer_token(header) IN
    IF ~extracted.found THEN Raised(AuthUnauthorizedError)
    ELSE LET verified == verify_jwt_token(extracted.token, "access") IN
         IF verified.error = "TokenExpiredError" THEN Raised(AuthTokenExpiredError)
         ELSE IF verified.error = "TokenInvalidError"
         THEN Raised(AuthTokenInvalidError(verified.detail))
         ELSE Resolved(verified.sub)

\* get_current_user: the sub claim parsed as a UUID and looked up in
\* app_owner; the id returned is str(owner.user_id).
get_current_user(token_payload, table) ==
    IF ~token_payload.ok THEN token_payload
    ELSE IF ~IsUUID(token_payload.sub)
    THEN Raised(AuthTokenInvalidError("Invalid user ID in token"))
    ELSE IF \A row \in BagToSet(table) : row.user_id # UUID(token_payload.sub)
    THEN Raised(AuthForbiddenError)
    ELSE Resolved(Str(UUID(token_payload.sub)))

\* get_current_owner: get_current_user under another name.
get_current_owner(header, table) == get_current_user(get_token_payload(header), table)

\* The body of the request to the protected endpoint.
ProtectedRequests == {[contact_id |-> Str("c1"), status_id |-> Str("s2"), position |-> 0]}

\* POST /kanban/move with its CurrentOwner dependency: the dependency is
\* resolved before move_contact is called, and what it raises is the
\* response. The header and the owners of that moment are kept.
MoveAsOwner ==
    \E header \in Authorizations :
    \E request \in ProtectedRequests :
    \E current_user \in {get_current_owner(header, app_owner)} :
    \E r \in {IF current_user.ok
              THEN move_contact(contacts, statuses, request)
              ELSE [contacts |-> contacts, resp |-> current_user.error]} :
        /\ InRange(r.contacts)
        /\ contacts' = r.contacts
        /\ resp' = r.resp
        /\ before' = contacts
        /\ in_range_moves' = (in_range_moves /\ (r.resp.kind = "ok" => InRangeTarget(contacts, request)))
        /\ round_trip' = NoRoundTrip
        /\ authorization' = [sent |-> header.sent, parts |-> header.parts,
                             owners |-> {row.user_id : row \in BagToSet(app_owner)}]
        /\ UNCHANGED <<statuses, session, app_owner, auth_users, bootstrapped>>
        /\ UNCHANGED graph

\* A board of two contacts, no owner and no request.
InitAuth ==
    /\ contacts = [c \in {"c1", "c2"} |->
                      [status_id |-> "s1",
                       sort_order_in_status |-> IF c = "c1" THEN 0 ELSE 1]]
    /\ statuses = InitialStatuses
    /\ resp = NoResponse
    /\ before = contacts
    /\ in_range_moves = TRUE
    /\ round_trip = NoRoundTrip
    /\ session = [p \in Sessions |-> NewBootstrapSession]
    /\ associations = EmptyBag
    /\ cluster_id = [c \in {} |-> 0]
    /\ before_associations = EmptyBag
    /\ passes = 0
    /\ NotBootstrapped

\* Requests to the protected endpoint before, during and after the
\* bootstrap calls of one client.
NextAuth ==
    \/ MoveAsOwner
    \/ \E p \in {1} :
          \/ BootstrapRequest(p)
          \/ BootstrapCheck(p)
          \/ BootstrapCreateUser(p)
          \/ BootstrapInsert(p)
          \/ BootstrapSignIn(p)

SpecAuth == InitAuth /\ [][NextAuth]_vars

\* ------------------------------------------------- the graph clusterer
\* The stable order in which a clustering pass iterates the contacts: the
\* order of their ids.
ContactOrder == <<"c1", "c2", "c3", "c4">>
\* Primary keys that may occur in the contacts table of a clustering pass.
ClusterContactIds == {ContactOrder[i] : i \in DOMAIN ContactOrder}

\* Union-Find initialised with one singleton set per contact identifier.
MakeSets(ids) == [parent |-> [c \in ids |-> c], rank |-> [c \in ids |-> 0]]

\* The representative of the set that holds x.
RECURSIVE Root(_, _)
Root(parent, x) == IF parent[x] = x THEN x ELSE Root(parent, parent[x])

\* The contacts on the path from x up to, and without, its representative.
RECURSIVE Path(_, _)
Path(parent, x) == IF parent[x] = x THEN {} ELSE {x} \cup Path(parent, parent[x])

\* find with path compression: every contact on the path is made a child of
\* the representative.
Find(uf, x) ==
    [root |-> Root(uf.parent, x),
     uf   |-> [uf EXCEPT !.parent =
                  [c \in DOMAIN uf.parent |->
                      IF c \in Path(uf.parent, x) THEN Root(uf.parent, x) ELSE uf.parent[c]]]]

\* A union by rank that links nothing when the two ranks are equal.
UnionUnequalRanks(uf, a, b) ==
    LET fa == Find(uf, a)
        fb == Find(fa.uf, b)
        u  == fb.uf
    IN  IF u.rank[fa.root] < u.rank[fb.root]
        THEN [u EXCEPT !.parent[fa.root] = fb.root]
        ELSE IF u.rank[fa.root] > u.rank[fb.root]
        THEN [u EXCEPT !.parent[fb.root] = fa.root]
        ELSE u

\* union by rank of the sets that hold a and b.
Union(uf, a, b) ==
    LET fa == Find(uf, a)
        fb == Find(fa.uf, b)
        u  == fb.uf
    IN  IF fa.root = fb.root THEN u
        ELSE IF u.rank[fa.root] < u.rank[fb.root]
        THEN [u EXCEPT !.parent[fa.root] = fb.root]
        ELSE IF u.rank[fa.root] > u.rank[fb.root]
        THEN [u EXCEPT !.parent[fb.root] = fa.root]
        ELSE [u EXCEPT !.parent[fb.root] = fa.root, !.rank[fa.root] = @ + 1]

\* The unions for the edges i..Len(edges), in the order they were listed.
RECURSIVE UnionAll(_, _, _)
UnionAll(uf, edges, i) ==
    IF i > Len(edges) THEN uf
    ELSE CHOOSE all \in {UnionAll(united, edges, i + 1) :
                            united \in {Union(uf, edges[i][1], edges[i][2])}} : TRUE

\* Labels taken from the place of the representative in ContactOrder.
AssignLabelsByRoot(uf, ids, i, labels, next) ==
    [r \in {Root(uf.parent, c) : c \in ids} |->
        CHOOSE n \in 0..(Len(ContactOrder) - 1) : ContactOrder[n + 1] = r]

\* The labels of the representatives, iterating the contacts from the i-th
\* of ContactOrder on: a representative met for the first time takes the
\* next integer.
\*   labels  representative -> label, for the representatives met so far
\*   next    the next unused label
RECURSIVE AssignLabels(_, _, _, _, _)
AssignLabels(uf, ids, i, labels, next) ==
    IF i > Len(ContactOrder) THEN labels
    ELSE IF ContactOrder[i] \notin ids \/ Root(uf.parent, ContactOrder[i]) \in DOMAIN labels
    THEN AssignLabels(uf, ids, i + 1, labels, next)
    ELSE AssignLabels(uf, ids, i + 1,
                      [r \in DOMAIN labels \cup {Root(uf.parent, ContactOrder[i])} |->
                          IF r \in DOMAIN labels THEN labels[r] ELSE next],
                      next + 1)

ClusterRecomputeResponse(clusters_found, contacts_updated) ==
    [op |-> "recompute", kind |-> "ok", clusters_found |-> clusters_found,
     contacts_updated |-> contacts_updated, algorithm |-> "connected_components"]

\* The labels persisted and the result returned once the representatives
\* have their labels.
Persist(ids, uf, roots) ==
    [cluster_id |-> [c \in ids |-> roots[Root(uf.parent, c)]],
     resp |-> ClusterRecomputeResponse(Cardinality({roots[r] : r \in DOMAIN roots}),
                                       Cardinality(ids))]

\* The labelling of the contacts ids whose sets are uf.
Relabel(ids, uf) ==
    CHOOSE result \in {Persist(ids, uf, roots) :
                          roots \in {AssignLabels(uf, ids, 1, [r \in {} |-> 0], 0)}} : TRUE

\* A clustering pass that labels the contacts that have an edge and leaves
\* the others as they are.
recompute_linked_only(rows, edges) ==
    CHOOSE result \in
        {Relabel(DOMAIN uf.parent, uf) :
            uf \in {UnionAll(MakeSets({c \in DOMAIN rows :
                                          \E i \in DOMAIN edges : c \in {edges[i][1], edges[i][2]}}),
                             edges, 1)}} : TRUE

\* A clustering pass that reports the clusters of two contacts or more.
recompute_counting_linked(rows, edges) ==
    CHOOSE result \in
        {[cluster_id |-> labelled.cluster_id,
          resp |-> ClusterRecomputeResponse(
                       Cardinality({labelled.cluster_id[c] : c \in
                           {d \in DOMAIN rows : \E e \in DOMAIN rows \ {d} :
                               labelled.cluster_id[d] = labelled.cluster_id[e]}}),
                       Cardinality(DOMAIN rows))] :
            labelled \in {Relabel(DOMAIN rows, UnionAll(MakeSets(DOMAIN rows), edges, 1))}} : TRUE

\* recompute(): the cluster_id it persists for every contact and its result,
\* for the contacts table and the edges in the order the store listed them.
recompute(rows, edges) ==
    CHOOSE result \in
        {Relabel(DOMAIN rows, uf) : uf \in {UnionAll(MakeSets(DOMAIN rows), edges, 1)}} : TRUE

\* The orders in which list_all_edges may return the rows of a table.
EdgeOrders(assocs) ==
    {edges \in [1..BagCardinality(assocs) -> BagToSet(assocs)] :
        \A a \in BagToSet(assocs) :
            Cardinality({i \in DOMAIN edges : edges[i] = a}) = assocs[a]}

\* ------------------------------------------------------------- bounds
\* Most rows of contact_associations a clustering pass starts from.
MaxEdges == 3

\* The cluster recomputation endpoint handled from request to response:
\* update_cluster_label for every contact the pass labelled.
Recompute ==
    \E edges \in EdgeOrders(associations) :
    \E r \in {recompute(contacts, edges)} :
        /\ cluster_id' = [c \in DOMAIN r.cluster_id \cup DOMAIN cluster_id |->
                            IF c \in DOMAIN r.cluster_id THEN r.cluster_id[c] ELSE cluster_id[c]]
        /\ resp' = r.resp
        /\ before' = contacts
        /\ before_associations' = associations
        /\ passes' = IF passes = 0 THEN 1 ELSE 2
        /\ round_trip' = NoRoundTrip
        /\ UNCHANGED <<contacts, associations, statuses, in_range_moves, session>>
        /\ UNCHANGED auth

\* The ordered pairs of different contacts of a set.
Pairs(ids) == {Association(a, b) : a, b \in ids} \ {Association(a, a) : a \in ids}

\* The subsets of a set that have at most n elements.
RECURSIVE UpTo(_, _)
UpTo(S, n) ==
    IF n = 0 THEN {{}}
    ELSE UpTo(S, n - 1) \cup {e \cup {a} : e \in UpTo(S, n - 1), a \in S}

\* Tables the contact and graph handlers can have committed: contacts without
\* a status, and associations that satisfy the constraints of the table.
Stored(universe) ==
    \E ids \in SUBSET universe :
        /\ contacts = [c \in ids |-> [status_id |-> NULL, sort_order_in_status |-> 0]]
        /\ \E stored \in UpTo(Pairs(ids), MaxEdges) : associations = SetToBag(stored)

InitCluster ==
    /\ Stored(ClusterContactIds)
    /\ statuses = InitialStatuses
    /\ resp = NoResponse
    /\ before = contacts
    /\ in_range_moves = TRUE
    /\ round_trip = NoRoundTrip
    /\ session = [p \in Sessions |-> NewSession]
    /\ cluster_id = [c \in {} |-> 0]
    /\ before_associations = associations
    /\ passes = 0
    /\ NotBootstrapped

NextCluster ==
    \/ Recompute
    \/ DeleteEdge
    \/ DeleteContact

\* Clustering passes between deletions of contacts and edges.
SpecCluster == InitCluster /\ [][NextCluster]_vars

\* ------------------------------------------ create_edge, step by step
\* The session of a POST /graph/edge request and where create_edge stands:
\*   pc       "idle", "lookup" (before the SELECTs of the two contacts),
\*            "check" (before the either-direction SELECT), "insert" (before
\*            db.flush()), "commit" (returned, before the commit of get_db),
\*            "done" or "failed"
\*   pending  the row the open transaction inserted and has not committed
\*   passed   history: the either-direction SELECT returned no row
\*   outcome  what the request was answered
NewEdgeSession ==
    [pc |-> "idle", source_id |-> None, target_id |-> None, pending |-> EmptyBag,
     passed |-> FALSE, outcome |-> NoResponse]

\* What create_edge never writes.
EdgeFrame ==
    /\ UNCHANGED <<contacts, statuses, before, in_range_moves, round_trip,
                   cluster_id, before_associations, passes>>
    /\ UNCHANGED auth

\* get_db raises the error of the handler after the rollback.
Raise(p, error) ==
    /\ session' = [session EXCEPT ![p].pc = "failed", ![p].pending = EmptyBag,
                                  ![p].outcome = error]
    /\ resp' = error
    /\ associations' = associations

\* POST /graph/edge arrives.
EdgeRequest(p) ==
    /\ session[p].pc = "idle"
    /\ \E source_id, target_id \in {Str(c) : c \in ContactIds} :
          session' = [session EXCEPT ![p].pc = "lookup", ![p].source_id = source_id,
                                     ![p].target_id = target_id]
    /\ UNCHANGED <<resp, associations>>
    /\ EdgeFrame

\* Lines 240-246: both contacts are looked up.
EdgeLookup(p) ==
    /\ session[p].pc = "lookup"
    /\ IF UUID(session[p].source_id) \notin DOMAIN contacts
       THEN Raise(p, ContactNotFoundError("create_edge", session[p].source_id))
       ELSE IF UUID(session[p].target_id) \notin DOMAIN contacts
       THEN Raise(p, ContactNotFoundError("create_edge", session[p].target_id))
       ELSE /\ session' = [session EXCEPT ![p].pc = "check"]
            /\ UNCHANGED <<resp, associations>>
    /\ EdgeFrame

\* Lines 248-261: the either-direction SELECT reads the committed rows
\* (READ COMMITTED; the transaction has written nothing yet).
EdgeCheck(p) ==
    /\ session[p].pc = "check"
    /\ \E existing \in {Existing(associations, UUID(session[p].source_id),
                                 UUID(session[p].target_id))} :
          IF existing > 1 THEN Raise(p, MultipleResultsFound("create_edge"))
          ELSE IF existing = 1
          THEN Raise(p, GraphEdgeExistsError(session[p].source_id, session[p].target_id))
          ELSE /\ session' = [session EXCEPT ![p].pc = "insert", ![p].passed = TRUE]
               /\ UNCHANGED <<resp, associations>>
    /\ EdgeFrame

\* Lines 263-271: db.add(edge) and db.flush().  The INSERT waits while a row
\* another open transaction inserted conflicts with it under the unique
\* constraint; then the constraints are checked against the committed rows.
EdgeInsert(p) ==
    /\ session[p].pc = "insert"
    /\ \E edge \in {Association(UUID(session[p].source_id), UUID(session[p].target_id))} :
          /\ \A q \in Sessions \ {p} : UniqueConstraint(session[q].pending, edge)
          /\ IF InsertFrom(contacts, associations, <<edge>>, 1).ok
             THEN /\ session' = [session EXCEPT ![p].pc = "commit",
                                                ![p].pending = SetToBag({edge})]
                  /\ UNCHANGED <<resp, associations>>
             ELSE Raise(p, IntegrityError("create_edge"))
    /\ EdgeFrame

\* The commit of get_db after the handler returned its EdgeResponse.
EdgeCommit(p) ==
    /\ session[p].pc = "commit"
    /\ associations' = associations (+) session[p].pending
    /\ session' = [session EXCEPT
                     ![p].pc = "done", ![p].pending = EmptyBag,
                     ![p].outcome = EdgeResponse(UUID(session[p].source_id),
                                                 UUID(session[p].target_id))]
    /\ resp' = EdgeResponse(UUID(session[p].source_id), UUID(session[p].target_id))
    /\ EdgeFrame

\* Committed tables and two requests not yet received.
InitEdges ==
    /\ Stored(ContactIds)
    /\ statuses = InitialStatuses
    /\ resp = NoResponse
    /\ before = contacts
    /\ in_range_moves = TRUE
    /\ round_trip = NoRoundTrip
    /\ session = [p \in Sessions |-> NewEdgeSession]
    /\ cluster_id = [c \in {} |-> 0]
    /\ before_associations = associations
    /\ passes = 0
    /\ NotBootstrapped

\* Two POST /graph/edge requests handled at the same time.
NextEdges ==
    \E p \in Sessions :
        \/ EdgeRequest(p)
        \/ EdgeLookup(p)
        \/ EdgeCheck(p)
        \/ EdgeInsert(p)
        \/ EdgeCommit(p)

SpecEdges == InitEdges /\ [][NextEdges]_vars

\* ------------------------------------------- the handler, step by step
\* What a statement of session p reads: the committed rows (READ COMMITTED,
\* the engine's default isolation level) under the transaction's own writes.
View(p) ==
    [c \in DOMAIN contacts |->
        IF c \in DOMAIN session[p].writes THEN session[p].writes[c] ELSE contacts[c]]

\* Another open transaction wrote row c and holds its row lock.
LockedByOther(p, c) == \E q \in Sessions \ {p} : c \in DOMAIN session[q].writes

\* Rows overlaid with newer versions of some of them.
Overlay(rows, newer) ==
    [c \in DOMAIN rows \cup DOMAIN newer |-> IF c \in DOMAIN newer THEN newer[c] ELSE rows[c]]

\* A session that commits every statement on its own (autocommit).
StageAutocommit(committed, writes, updated) ==
    [contacts |-> Overlay(committed, updated), writes |-> writes]

\* Where the row versions of an executed statement go: the session has
\* autocommit=False, so they stay in the open transaction until db.commit().
Stage(committed, writes, updated) ==
    [contacts |-> committed, writes |-> Overlay(writes, updated)]

\* Lines 52-72 for a handler that may start when its session is at one of
\* pcs: both lookups, then the choice of statements from the loaded Contact.
LoadFrom(p, pcs, requests) ==
    \E request \in requests :
        LET id == UUID(request.contact_id) IN
        /\ session[p].pc \in pcs
        /\ before' = IF \A q \in Sessions \ {p} : session[q].pc = "idle"
                     THEN contacts ELSE before
        /\ IF id \notin DOMAIN contacts
           THEN /\ session' = [session EXCEPT ![p] = [NewSession EXCEPT !.pc = "failed",
                                                                          !.request = request]]
                /\ resp' = ContactNotFoundError("move", request.contact_id)
           ELSE IF UUID(request.status_id) \notin statuses
           THEN /\ session' = [session EXCEPT ![p] = [NewSession EXCEPT !.pc = "failed",
                                                                          !.request = request]]
                /\ resp' = StatusNotFoundError("move", request.status_id)
           ELSE /\ session' = [session EXCEPT ![p] =
                                  [NewSession EXCEPT !.pc = "run",
                                                     !.request = request,
                                                     !.contact = contacts[id],
                                                     !.stmts = Statements(request, contacts[id])]]
                /\ resp' = resp
        /\ UNCHANGED <<contacts, statuses, in_range_moves, round_trip>>
        /\ UNCHANGED graph
        /\ UNCHANGED auth

\* db.execute(update(...)) begins: the statement takes its snapshot and finds
\* the rows that satisfy its WHERE clause.
StmtStart(p) ==
    /\ session[p].pc = "run"
    /\ session[p].stmts # <<>>
    /\ ~session[p].scanning
    /\ session' = [session EXCEPT
                     ![p].scanning = TRUE,
                     ![p].cand = {c \in DOMAIN contacts : Where(Head(session[p].stmts), View(p)[c])}]
    /\ UNCHANGED <<contacts, statuses, resp, before, in_range_moves, round_trip>>
    /\ UNCHANGED graph
    /\ UNCHANGED auth

\* db.execute(update(...)) returns: once no candidate row is locked by
\* another transaction, each candidate whose latest version still satisfies
\* the WHERE clause is updated from that version; the loaded Contact is
\* synchronized.
StmtFinish(p) ==
    LET stmt    == Head(session[p].stmts)
        latest  == View(p)
        hit     == {c \in session[p].cand : Where(stmt, latest[c])}
        updated == [c \in hit |-> Values(stmt, latest[c])]
        staged  == Stage(contacts, session[p].writes, updated)
    IN  /\ session[p].pc = "run"
        /\ session[p].scanning
        /\ \A c \in session[p].cand : ~LockedByOther(p, c)
        /\ InRange(updated)
        /\ contacts' = staged.contacts
        /\ session' = [session EXCEPT
                         ![p].scanning = FALSE,
                         ![p].cand = {},
                         ![p].stmts = Tail(@),
                         ![p].contact = Synchronize(@, stmt),
                         ![p].writes = staged.writes]
        /\ UNCHANGED <<statuses, resp, before, in_range_moves, round_trip>>
        /\ UNCHANGED graph
        /\ UNCHANGED auth

\* Lines 119-129: the two assignments, db.commit() (the flush of the changed
\* attributes, which waits for the row lock, then COMMIT) and the response.
Commit(p) ==
    LET request == session[p].request
        id      == UUID(request.contact_id)
        obj     == session[p].contact
        dirty   == \/ UUID(request.status_id) # obj.status_id
                   \/ request.position # obj.sort_order_in_status
    IN  /\ session[p].pc = "run"
        /\ session[p].stmts = <<>>
        /\ dirty => ~LockedByOther(p, id)
        /\ contacts' = Flush(View(p), id, obj, request)
        /\ session' = [session EXCEPT ![p] = [NewSession EXCEPT !.pc = "done",
                                                                 !.request = request]]
        /\ resp' = KanbanMoveResponse(request.contact_id, request.status_id, request.position)
        /\ UNCHANGED <<statuses, before, in_range_moves, round_trip>>
        /\ UNCHANGED graph
        /\ UNCHANGED auth

\* A statement or the commit raises (connection lost, deadlock, timeout):
\* get_db rolls the transaction back and the error handler answers.
Fail(p) ==
    /\ session[p].pc = "run"
    /\ session' = [session EXCEPT ![p] = [NewSession EXCEPT !.pc = "failed",
                                                             !.request = session[p].request,
                                                             !.rolled_back = session[p].writes]]
    /\ resp' = InternalError("move")
    /\ UNCHANGED <<contacts, statuses, before, in_range_moves, round_trip>>
    /\ UNCHANGED graph
    /\ UNCHANGED auth

\* One request at a time, handled statement by statement.
NextTxn ==
    \/ LoadFrom(1, {"idle", "done", "failed"}, KanbanMoveRequest)
    \/ StmtStart(1)
    \/ StmtFinish(1)
    \/ Commit(1)
    \/ Fail(1)

SpecTxn == Init /\ [][NextTxn]_vars

\* The requests of the concurrent runs: canonical ids of existing statuses.
ConcurrentRequests ==
    {r \in KanbanMoveRequest :
        r.status_id.form = "canon" /\ UUID(r.status_id) \in InitialStatuses}

\* A board with every contact present and every column dense.
InitConc ==
    /\ Init
    /\ DOMAIN contacts = ContactIds

\* Two requests handled at the same time, one move each.
NextConc ==
    \E p \in Sessions :
        \/ LoadFrom(p, {"idle"}, ConcurrentRequests)
        \/ StmtStart(p)
        \/ StmtFinish(p)
        \/ Commit(p)
        \/ Fail(p)

SpecConc == InitConc /\ [][NextConc]_vars

\* =================================================================== claims
\* The last call was a move that returned its KanbanMoveResponse.
MovedOk == resp.op = "move" /\ resp.kind = "ok"
\* The contact, the target status and the target position of that move.
Moved == UUID(resp.id)
Target == UUID(resp.status_id)
NewPos == resp.sort_order_in_status
\* The row of the moved contact when the call began.
Old == before[Moved]

Row(s, n) == [status_id |-> s, sort_order_in_status |-> n]
AllDense(rows) == \A s \in StatusIds : Dense(rows, s)

\* C1 as stated: on a board that starts dense, after any sequence of
\* successful moves every status column holds exactly the positions 0..N-1.
C1_DensityAfterAnyMoves == AllDense(contacts)

\* C1 amended: on a board that starts dense, after any sequence of successful
\* moves whose target positions all lie inside the target column, every status
\* column holds exactly the positions 0..N-1, without duplicates or gaps.
C1_DensityAfterInRangeMoves == in_range_moves => AllDense(contacts)

C1_Witness ==
    /\ MovedOk /\ in_range_moves
    /\ contacts # before
    /\ Cardinality(Column(contacts, Target)) = Cardinality(ContactIds)

\* C2: a successful move into another status decrements every contact left in
\* the old status above the old position (when the old status is not null),
\* increments every contact of the new status at or above the new position,
\* and changes no other contact; New=[A], Active=[B,C], A to Active at 1
\* gives New empty and Active B=0, A=1, C=2.
C2_CrossColumnMove ==
    /\ (MovedOk /\ Old.status_id # Target) =>
          /\ DOMAIN contacts = DOMAIN before
          /\ \A d \in DOMAIN before \ {Moved} :
                contacts[d] =
                    IF /\ Old.status_id # NULL
                       /\ before[d].status_id = Old.status_id
                       /\ before[d].sort_order_in_status > Old.sort_order_in_status
                    THEN Row(before[d].status_id, before[d].sort_order_in_status - 1)
                    ELSE IF /\ before[d].status_id = Target
                            /\ before[d].sort_order_in_status >= NewPos
                         THEN Row(before[d].status_id, before[d].sort_order_in_status + 1)
                         ELSE before[d]
    /\ (/\ MovedOk /\ resp.id = Str("c1") /\ Target = "s2" /\ NewPos = 1
        /\ before = [c \in ContactIds |->
                        CASE c = "c1" -> Row("s1", 0)
                          [] c = "c2" -> Row("s2", 0)
                          [] c = "c3" -> Row("s2", 1)]) =>
          contacts = [c \in ContactIds |->
                        CASE c = "c1" -> Row("s2", 1)
                          [] c = "c2" -> Row("s2", 0)
                          [] c = "c3" -> Row("s2", 2)]

C2_Witness ==
    /\ MovedOk /\ resp.id = Str("c1") /\ Target = "s2" /\ NewPos = 1
    /\ before = [c \in ContactIds |->
                    CASE c = "c1" -> Row("s1", 0)
                      [] c = "c2" -> Row("s2", 0)
                      [] c = "c3" -> Row("s2", 1)]
    /\ Column(contacts, "s1") = {}

\* C3: a successful move inside a column to a lower position increments
\* exactly the other contacts of that column with position in [new, old) and
\* leaves every other contact as it was; Active=[A,B,C], C to 0 gives C=0,
\* A=1, B=2.
C3_MoveToLowerPosition ==
    (MovedOk /\ Old.status_id = Target /\ Old.sort_order_in_status > NewPos) =>
        /\ DOMAIN contacts = DOMAIN before
        /\ \A d \in DOMAIN before \ {Moved} :
              contacts[d] =
                  IF /\ before[d].status_id = Target
                     /\ before[d].sort_order_in_status >= NewPos
                     /\ before[d].sort_order_in_status < Old.sort_order_in_status
                  THEN Row(before[d].status_id, before[d].sort_order_in_status + 1)
                  ELSE before[d]

\* C4: a successful move inside a column to a higher position decrements
\* exactly the other contacts of that column with position in (old, new] and
\* leaves every other contact as it was.
C4_MoveToHigherPosition ==
    (MovedOk /\ Old.status_id = Target /\ Old.sort_order_in_status < NewPos) =>
        /\ DOMAIN contacts = DOMAIN before
        /\ \A d \in DOMAIN before \ {Moved} :
              contacts[d] =
                  IF /\ before[d].status_id = Target
                     /\ before[d].sort_order_in_status > Old.sort_order_in_status
                     /\ before[d].sort_order_in_status <= NewPos
                  THEN Row(before[d].status_id, before[d].sort_order_in_status - 1)
                  ELSE before[d]

C4_Witness ==
    /\ MovedOk /\ resp.id = Str("c1") /\ Target = "s1" /\ NewPos = 2
    /\ before = [c \in ContactIds |->
                    CASE c = "c1" -> Row("s1", 0)
                      [] c = "c2" -> Row("s1", 1)
                      [] c = "c3" -> Row("s1", 2)]
    /\ contacts["c2"] = Row("s1", 0) /\ contacts["c3"] = Row("s1", 1)

\* C5: after a successful move the moved contact's row carries the target
\* status and the target position, and these are the id, status_id and
\* sort_order_in_status of the response.
C5_MovedContactAtTarget ==
    MovedOk =>
        /\ Moved \in DOMAIN contacts
        /\ contacts[Moved].status_id = UUID(resp.status_id)
        /\ contacts[Moved].sort_order_in_status = resp.sort_order_in_status

C5_Witness ==
    /\ MovedOk
    /\ Old.status_id \notin {NULL, Target}
    /\ Old.sort_order_in_status # NewPos
    /\ resp.status_id.form = "other"

C7_MoveIsAtomic ==
    /\ session[1].pc \in {"run", "failed"} => contacts = before
    /\ session[1].pc = "done" =>
          contacts = move_contact(before, statuses, session[1].request).contacts

C7_Witness ==
    /\ session[1].pc = "failed" /\ resp.kind = "InternalError"
    /\ \E c \in DOMAIN session[1].rolled_back :
          /\ c # UUID(session[1].request.contact_id)
          /\ session[1].rolled_back[c] # contacts[c]
    /\ contacts = before

\* The table after request a and then request b, each handled alone.
Serial(a, b) ==
    move_contact(move_contact(before, statuses, a).contacts, statuses, b).contacts

\* C8: two concurrent in-range moves into the same column commit the result
\* of one of their two serial orders, and the column stays dense.
C8_ConcurrentMovesSerialize ==
    LET a == session[1].request
        b == session[2].request
    IN  (/\ session[1].pc = "done" /\ session[2].pc = "done"
         /\ UUID(a.status_id) = UUID(b.status_id)
         /\ InRangeTarget(before, a) /\ InRangeTarget(before, b)) =>
            /\ contacts \in {Serial(a, b), Serial(b, a)}
            /\ Dense(contacts, UUID(a.status_id))

\* C9: a successful move of a contact to the status and position it already
\* has leaves every contact's status_id and sort_order_in_status unchanged.
C9_MoveToOwnSlot ==
    (MovedOk /\ Old = Row(Target, NewPos)) => contacts = before

\* C10: moving a contact inside its status from P1 to P2 and then back from P2
\* to P1 restores the sort_order_in_status of every contact.
C10_RoundTripRestores == round_trip.valid => contacts = round_trip.rows

\* The request of the last move, as its response repeats it.
LastRequest == [contact_id |-> resp.id, status_id |-> resp.status_id, position |-> NewPos]

\* C11: the target position is not range-checked: whatever the table, a move
\* of an existing contact to an existing status with any position 0..MaxPos,
\* also one beyond the end of the target column, returns its response and
\* stores the position as given; when the position is beyond the end, the
\* target column is left with a gap.
C11_TargetNotRangeChecked ==
    \A request \in KanbanMoveRequest :
        (UUID(request.contact_id) \in DOMAIN contacts /\ UUID(request.status_id) \in statuses) =>
            \E r \in {move_contact(contacts, statuses, request)} :
                /\ r.resp = KanbanMoveResponse(request.contact_id, request.status_id,
                                               request.position)
                /\ r.contacts[UUID(request.contact_id)] =
                       Row(UUID(request.status_id), request.position)
                /\ ~InRangeTarget(contacts, request) =>
                       ~Dense(r.contacts, UUID(request.status_id))

\* A move beyond the end of a column of two was served: the moved contact
\* sits at the position asked for and a lower position of the column is free.
C11_Witness ==
    /\ MovedOk
    /\ ~InRangeTarget(before, LastRequest)
    /\ Cardinality(Column(before, Target) \ {Moved}) = 2
    /\ contacts[Moved] = Row(Target, NewPos)
    /\ \E n \in 0..(NewPos - 1) :
          \A c \in Column(contacts, Target) : contacts[c].sort_order_in_status # n

\* The last call was a clustering pass.
Recomputed == resp.op = "recompute" /\ resp.kind = "ok"
\* A stored association joins a and b, in either direction.
Linked(a, b) == BagIn(Association(a, b), associations) \/ BagIn(Association(b, a), associations)
\* The contacts a path of associations reaches from those of S.
RECURSIVE Grow(_)
Grow(S) ==
    IF \A c \in S : \A d \in DOMAIN contacts : Linked(c, d) => d \in S
    THEN S
    ELSE Grow(S \cup {d \in DOMAIN contacts : \E c \in S : Linked(c, d)})
\* The connected component of a contact.
Component(c) == Grow({c})
\* A contact without any association.
Isolated(c) == \A d \in DOMAIN contacts : ~Linked(c, d)

\* C12: right after a clustering pass two contacts carry the same cluster_id
\* exactly when a path of associations joins them, an association (source,
\* target) joining its two contacts whichever of them is the source.
C12_SameClusterIffConnected ==
    Recomputed =>
        \A a, b \in DOMAIN contacts : (cluster_id[a] = cluster_id[b]) <=> (b \in Component(a))

\* A pass labelled two contacts alike that are joined only through a third
\* contact they both point away from, and a fourth contact differently.
C12_Witness ==
    /\ Recomputed
    /\ \E a, b, m, c \in DOMAIN contacts :
          /\ Cardinality({a, b, m, c}) = 4
          /\ BagIn(Association(m, a), associations)
          /\ BagIn(Association(m, b), associations)
          /\ ~Linked(a, b)
          /\ cluster_id[a] = cluster_id[b]
          /\ cluster_id[c] # cluster_id[a]

\* C13: right after a clustering pass every contact, also one without any
\* association, has a cluster_id that is not null, and the cluster_id of a
\* contact without associations is carried by no other contact.
C13_EveryContactLabelled ==
    Recomputed =>
        \A c \in DOMAIN contacts :
            /\ c \in DOMAIN cluster_id
            /\ Isolated(c) => \A d \in DOMAIN cluster_id \ {c} : cluster_id[d] # cluster_id[c]

\* A first pass labelled two contacts without associations next to a pair
\* that is joined.
C13_Witness ==
    /\ Recomputed /\ passes = 1
    /\ \E c, d, a, b \in DOMAIN contacts :
          /\ Cardinality({a, b, c, d}) = 4
          /\ Isolated(c) /\ Isolated(d) /\ Linked(a, b)
          /\ {c, d} \subseteq DOMAIN cluster_id

\* C14: a clustering pass returns as clusters_found the number of connected
\* components and as contacts_updated the number of contacts; on an empty
\* contacts table it returns 0 and 0 and no error.
C14_RecomputeCounts ==
    resp.op = "recompute" =>
        /\ resp.kind = "ok"
        /\ resp.clusters_found = Cardinality({Component(c) : c \in DOMAIN contacts})
        /\ resp.contacts_updated = Cardinality(DOMAIN contacts)
        /\ DOMAIN contacts = {} => (resp.clusters_found = 0 /\ resp.contacts_updated = 0)

\* A pass over four contacts, three of them joined, reported two clusters.
C14_Witness ==
    /\ Recomputed
    /\ resp.clusters_found = 2 /\ resp.contacts_updated = 4
    /\ \E c \in DOMAIN contacts : Isolated(c)
    /\ BagCardinality(associations) >= 2

\* The place of the first contact of the cluster of c.
FirstPlace(c) ==
    CHOOSE i \in DOMAIN ContactOrder :
        /\ ContactOrder[i] \in DOMAIN contacts
        /\ cluster_id[ContactOrder[i]] = cluster_id[c]
        /\ \A j \in 1..(i - 1) :
              ContactOrder[j] \in DOMAIN contacts => cluster_id[ContactOrder[j]] # cluster_id[c]
\* The labels are the integers 0..k-1, in the order in which the clusters
\* are first met when the contacts are iterated in the stable order.
DenseInOrder ==
    /\ {cluster_id[c] : c \in DOMAIN contacts} =
          0..(Cardinality({cluster_id[c] : c \in DOMAIN contacts}) - 1)
    /\ \A a, b \in DOMAIN contacts :
          FirstPlace(a) < FirstPlace(b) => cluster_id[a] < cluster_id[b]

\* C15: a clustering pass leaves labels that are the integers 0..k-1, given
\* in the order in which the components are first met when the contacts are
\* iterated in their stable order; and a pass that follows a pass, the
\* tables unchanged in between, leaves every contact the label it had,
\* whatever the order in which the edges were listed.
C15_RecomputeIsDeterministic ==
    [][/\ resp'.op = "recompute" => DenseInOrder'
       /\ (passes >= 1 /\ passes' = 2) => cluster_id' = cluster_id]_vars

\* Two passes ran over unchanged tables that hold three clusters, the first
\* contact of the order being the target and never the source of an edge.
C15_Witness ==
    /\ Recomputed /\ passes = 2
    /\ Cardinality({cluster_id[c] : c \in DOMAIN contacts}) = 3
    /\ "c1" \in DOMAIN contacts
    /\ \E d \in DOMAIN contacts : BagIn(Association(d, "c1"), associations)
    /\ \A d \in DOMAIN contacts : ~BagIn(Association("c1", d), associations)

\* The stored associations between a and b, in both directions.
Between(assocs, a, b) ==
    CopiesIn(Association(a, b), assocs) + CopiesIn(Association(b, a), assocs)

\* C16: after any sequence of calls of create_edge, of create_contact with
\* association_contact_ids and of update_contact with association_contact_ids,
\* one after the other, at most one association is stored for every pair of
\* contacts: (A,B) and (B,A) are never both stored and no ordered pair is
\* stored twice.
C16_OneAssociationPerPair ==
    \A a, b \in ContactIds : a # b => Between(associations, a, b) <= 1

\* C17: no stored association joins a contact to itself, and create_edge
\* with an existing contact as source and as target fails at the flush and
\* leaves the associations as they were.
C17_NoSelfLoop ==
    /\ \A a \in ContactIds : ~BagIn(Association(a, a), associations)
    /\ \A a \in DOMAIN contacts :
          \E r \in {create_edge(contacts, associations, Str(a), Str(a))} :
              /\ r.resp = IntegrityError("create_edge")
              /\ r.associations = associations

\* create_edge was refused at the flush, on a table that holds associations.
C17_Witness ==
    /\ resp = IntegrityError("create_edge")
    /\ associations = before_associations
    /\ BagCardinality(associations) >= 2

\* C19: create_edge raises ContactNotFoundError when the source or the target
\* has no row, and GraphEdgeExistsError when both have a row and an
\* association is stored between them in either direction; in both cases the
\* associations stay as they were.
C19_CreateEdgeErrors ==
    \A source, target \in ContactIds :
        \E r \in {create_edge(contacts, associations, Str(source), Str(target))} :
            /\ ~({source, target} \subseteq DOMAIN contacts) =>
                  /\ r.resp.kind = "ContactNotFoundError"
                  /\ r.associations = associations
            /\ ({source, target} \subseteq DOMAIN contacts
                    /\ Between(associations, source, target) >= 1) =>
                  /\ r.resp = GraphEdgeExistsError(Str(source), Str(target))
                  /\ r.associations = associations

\* The contact the last call deleted.
Deleted == UUID(resp.id)

\* C20: delete_contact removes every association whose source or target is
\* the deleted contact, and leaves every other association stored.
C20_DeleteCascades ==
    (resp.op = "delete_contact" /\ resp.kind = "ok") =>
        /\ Deleted \notin DOMAIN contacts
        /\ \A a, b \in ContactIds :
              CopiesIn(Association(a, b), associations) =
                  IF Deleted \in {a, b} THEN 0
                  ELSE CopiesIn(Association(a, b), before_associations)

\* The deleted contact was the source of one association and the target of
\* another, and an association between two other contacts is still stored.
C20_Witness ==
    /\ resp.op = "delete_contact" /\ resp.kind = "ok"
    /\ \E a, b \in ContactIds \ {Deleted} :
          /\ BagIn(Association(Deleted, a), before_associations)
          /\ BagIn(Association(b, Deleted), before_associations)
          /\ BagIn(Association(a, b), associations)

\* Sessions p and q were asked for the same two contacts, source and target
\* swapped, and the either-direction SELECT of each returned no row.
SwappedAndPassed(p, q) ==
    /\ session[p].source_id = session[q].target_id
    /\ session[p].target_id = session[q].source_id
    /\ session[p].source_id # session[p].target_id
    /\ session[p].passed /\ session[q].passed

\* C18: when create_edge(A,B) and create_edge(B,A) run at the same time and
\* both have passed the either-direction check, neither INSERT waits for the
\* other or is rejected, none of the two requests fails, and once both have
\* committed (A,B) and (B,A) are both stored: the unique constraint on the
\* ordered pair stops neither.
C18_SwappedEdgesBothCommit ==
    \A p, q \in Sessions :
        (p # q /\ SwappedAndPassed(p, q)) =>
            /\ session[p].pc \in {"insert", "commit", "done"}
            /\ session[p].pc = "insert" => ENABLED EdgeInsert(p)
            /\ (session[p].pc = "done" /\ session[q].pc = "done") =>
                  /\ BagIn(Association(UUID(session[p].source_id), UUID(session[p].target_id)),
                           associations)
                  /\ BagIn(Association(UUID(session[q].source_id), UUID(session[q].target_id)),
                           associations)

\* Both requests were answered with their EdgeResponse and the two contacts
\* are joined by two stored associations, where none was stored before.
C18_Witness ==
    /\ SwappedAndPassed(1, 2)
    /\ session[1].outcome.kind = "ok" /\ session[2].outcome.kind = "ok"
    /\ Between(before_associations, UUID(session[1].source_id), UUID(session[1].target_id)) = 0
    /\ Between(associations, UUID(session[1].source_id), UUID(session[1].target_id)) = 2

\* The last call was a delete_contact that returned.
DeletedOk == resp.op = "delete_contact" /\ resp.kind = "ok"

\* C21: delete_contact compacts nothing: every other contact keeps its
\* status_id and sort_order_in_status, so deleting a contact that is not the
\* last of a dense column leaves that column with a gap.
C21_DeleteDoesNotCompact ==
    DeletedOk =>
        /\ contacts = [c \in DOMAIN before \ {Deleted} |-> before[c]]
        /\ \A s \in StatusIds :
              (/\ before[Deleted].status_id = s
               /\ Dense(before, s)
               /\ before[Deleted].sort_order_in_status < Cardinality(Column(before, s)) - 1) =>
                  ~Dense(contacts, s)

\* The middle contact of a dense column of three was deleted: the two left
\* sit at 0 and 2.
C21_Witness ==
    /\ DeletedOk
    /\ \E s \in StatusIds :
          /\ before[Deleted].status_id = s
          /\ Dense(before, s)
          /\ Cardinality(Column(before, s)) = 3
          /\ before[Deleted].sort_order_in_status = 1
          /\ {contacts[c].sort_order_in_status : c \in Column(contacts, s)} = {0, 2}

\* C24: delete_status removes a status only when no contact has it: asked
\* for a status that at least one contact references it raises the 409
\* HTTPException and leaves the status and every contact as they were; asked
\* for a status that has no row it raises StatusNotFoundError; and it never
\* changes a contact.
C24_DeleteStatusOnlyUnused ==
    /\ \A status_id \in {IdString(s, f) : s \in StatusIds, f \in Forms} :
          \E r \in {delete_status(contacts, statuses, status_id)} :
              /\ UUID(status_id) \notin statuses =>
                    /\ r.resp = StatusNotFoundError("delete_status", status_id)
                    /\ r.statuses = statuses
              /\ (UUID(status_id) \in statuses /\ Column(contacts, UUID(status_id)) # {}) =>
                    /\ r.resp = HTTPException("delete_status", 409, status_id)
                    /\ r.statuses = statuses
              /\ r.statuses # statuses =>
                    /\ Column(contacts, UUID(status_id)) = {}
                    /\ r.statuses = statuses \ {UUID(status_id)}
    /\ resp.op = "delete_status" =>
          /\ contacts = before
          /\ resp.kind = "HTTPException" =>
                (UUID(resp.status_id) \in statuses /\ Column(contacts, UUID(resp.status_id)) # {})
          /\ resp.kind = "ok" =>
                (UUID(resp.status_id) \notin statuses /\ Column(before, UUID(resp.status_id)) = {})

\* The delete of a status that two contacts have was refused with 409, after
\* the other status had been deleted.
C24_Witness ==
    /\ resp = HTTPException("delete_status", 409, IdString("s1", "other"))
    /\ statuses = {"s1"}
    /\ Cardinality(Column(contacts, "s1")) = 2
    /\ contacts = before

\* The last call was an update_contact that returned; the contact it updated.
UpdatedOk == resp.op = "update_contact" /\ resp.kind = "ok"
Updated == UUID(resp.id)

\* C29: update_contact called with a status_id assigns the contact's
\* status_id and nothing else: the contact keeps its sort_order_in_status and
\* every other contact, of the old and of the new status, keeps its row; the
\* old column is left with the gap and the new column gets no free slot.
C29_UpdateChangesStatusOnly ==
    (UpdatedOk /\ resp.status_id # None) =>
        /\ contacts = [before EXCEPT ![Updated].status_id = UUID(resp.status_id)]
        /\ resp.sort_order_in_status = before[Updated].sort_order_in_status

\* On a dense board the first of two contacts of s1 was given status s2,
\* which holds a contact at 0: s1 is left without a position 0 and s2 with
\* two contacts at 0.
C29_Witness ==
    /\ UpdatedOk
    /\ AllDense(before)
    /\ before[Updated] = Row("s1", 0)
    /\ contacts[Updated] = Row("s2", 0)
    /\ \E c, d \in DOMAIN contacts \ {Updated} :
          /\ contacts[c] = Row("s1", 1) /\ before[c] = Row("s1", 1)
          /\ contacts[d] = Row("s2", 0) /\ before[d] = Row("s2", 0)

\* The last call was a create_contact that returned; the contact it created.
CreatedOk == resp.op = "create_contact" /\ resp.kind = "ok"
Created == UUID(resp.id)

\* C28: create_contact stores the new contact with sort_order_in_status 0,
\* with a status or without, and leaves every existing contact's row as it
\* was; created in a status that holds a contact at position 0, it shares
\* position 0 with that contact.
C28_CreateAtPositionZero ==
    CreatedOk =>
        /\ DOMAIN contacts = DOMAIN before \cup {Created}
        /\ Created \notin DOMAIN before
        /\ contacts[Created] =
               Row(IF resp.status_id = None THEN NULL ELSE UUID(resp.status_id), 0)
        /\ \A c \in DOMAIN before : contacts[c] = before[c]
        /\ \A c \in DOMAIN before :
              (before[c].status_id # NULL /\ before[c] = contacts[Created]) =>
                  /\ contacts[c] = contacts[Created]
                  /\ ~Dense(contacts, before[c].status_id)

\* A contact was created in a dense column of two: the column now holds
\* positions 0, 0 and 1.
C28_Witness ==
    /\ CreatedOk
    /\ contacts[Created] = Row("s1", 0)
    /\ Dense(before, "s1")
    /\ \E c, d \in DOMAIN before :
          /\ contacts[c] = Row("s1", 0) /\ contacts[d] = Row("s1", 1)

\* C25: when every status column is dense before a move and the target
\* position lies inside the target column (at most N-1 for a move within a
\* column of N contacts, at most N for a move into a column of N contacts),
\* the old and the target column of the moved contact are dense after it.
C25_InRangeMoveKeepsDensity ==
    (MovedOk /\ AllDense(before) /\ InRangeTarget(before, LastRequest)) =>
        /\ Dense(contacts, Target)
        /\ Old.status_id # NULL => Dense(contacts, Old.status_id)

\* The first contact of a dense column of two was moved to the head of
\* another dense column of one, and both columns are dense again.
C25_Witness ==
    /\ MovedOk /\ AllDense(before) /\ InRangeTarget(before, LastRequest)
    /\ Old = Row("s1", 0) /\ Target = "s2" /\ NewPos = 0
    /\ Cardinality(Column(before, "s1")) = 2
    /\ Cardinality(Column(before, "s2")) = 1
    /\ Dense(contacts, "s1") /\ Dense(contacts, "s2")
    /\ contacts # before

\* C26: a move keeps the relative order of the contacts it does not move: of
\* two such contacts of one status, the one with the smaller
\* sort_order_in_status before the move has the smaller one after it.
C26_MoveKeepsRelativeOrder ==
    MovedOk =>
        \A c, d \in DOMAIN before \ {Moved} :
            (/\ before[c].status_id = before[d].status_id
             /\ before[c].status_id # NULL
             /\ before[c].sort_order_in_status < before[d].sort_order_in_status) =>
                contacts[c].sort_order_in_status < contacts[d].sort_order_in_status

\* C27: a move changes the status_id of the moved contact only, creates and
\* deletes no contact, and leaves the sort_order_in_status of every contact
\* whose status is neither the moved contact's old status nor the target
\* status, or is null, as it was.
C27_MoveFrame ==
    MovedOk =>
        /\ DOMAIN contacts = DOMAIN before
        /\ \A c \in DOMAIN before \ {Moved} :
              /\ contacts[c].status_id = before[c].status_id
              /\ (before[c].status_id \notin {Old.status_id, Target}
                    \/ before[c].status_id = NULL) =>
                    contacts[c] = before[c]

\* A contact was moved from one status to the other while a contact without
\* status sat at position 0: that contact kept its row, and a contact of
\* the old or the target status was shifted.
C27_Witness ==
    /\ MovedOk
    /\ Old.status_id \notin {NULL, Target}
    /\ \E c, d \in DOMAIN before \ {Moved} :
          /\ before[c] = Row(NULL, 0) /\ contacts[c] = Row(NULL, 0)
          /\ before[d].status_id \in {Old.status_id, Target}
          /\ contacts[d] # before[d]

\* The last call was a get_graph that returned its GraphResponse.
GraphReturned == resp.op = "get_graph" /\ resp.kind = "ok"
\* The last call was a get_graph that accepted its filters and built its
\* nodes and edges.
GraphBuilt == resp.op = "get_graph" /\ resp.kind # "ValueError"

\* C30: in every graph get_graph returns, under any filters, every edge has
\* its source and its target among the returned nodes; and when the filters
\* match no contact, get_graph returns a graph whose nodes and edges are
\* both empty.
C30_EdgesWithinNodes ==
    /\ GraphReturned =>
          \A e \in BagToSet(resp.edges) : e[1] \in resp.nodes /\ e[2] \in resp.nodes
    /\ (GraphBuilt /\ resp.nodes = {}) =>
          (GraphReturned /\ resp.edges = EmptyBag)

\* C22: bootstrap works once: a bootstrap_owner call that arrives after a
\* call has returned its tokens raises AuthAlreadyInitializedError, and
\* under any sequence and interleaving of calls app_owner never holds more
\* than one row.
C22_BootstrapOnlyOnce ==
    /\ BagCardinality(app_owner) <= 1
    /\ bootstrapped => check_bootstrap_status(app_owner)
    /\ \A p \in Sessions :
          (session[p].after_success /\ session[p].pc # "check") =>
              /\ session[p].pc = "failed"
              /\ session[p].outcome = AuthAlreadyInitializedError

\* One call returned its tokens; the other, which had passed the check at
\* the same time and created a second user, was refused at the insert, and
\* called again it was refused as already initialized.
C22_Witness ==
    /\ session[1].pc = "done"
    /\ session[2].after_success
    /\ session[2].outcome = AuthAlreadyInitializedError
    /\ Cardinality(DOMAIN auth_users) = 2
    /\ BagCardinality(app_owner) = 1

\* The last response answers a request to the protected endpoint: it is
\* the error of the dependency or what the handler returned or raised.
Answered == resp.op \in {"get_current_owner", "move"}
\* The request was rejected with the given error and the handler body did
\* not run: the board is as it was.
Rejected(kind) ==
    /\ resp.op = "get_current_owner"
    /\ resp.kind = kind
    /\ contacts = before
\* The header of the request was "Bearer" and one token.
BearerHeader ==
    /\ authorization.sent
    /\ Len(authorization.parts) = 2
    /\ authorization.parts[1] \in {"Bearer", "bearer"}
SentToken == authorization.parts[2]
\* The subject of the token sent is the user of the app_owner row.
SubjectIsOwner ==
    /\ IsUUID(SentToken.sub)
    /\ UUID(SentToken.sub) \in authorization.owners
\* The errors the flaws of a token call for: token-expired for a token
\* past its exp, token-invalid for a string that is no JWT, a JWT without
\* a subject, a signature that does not verify, a type other than access.
FlawsCallFor(token) ==
    (IF token.wellformed /\ token.exp = "past" THEN {"AuthTokenExpiredError"} ELSE {})
    \cup (IF \/ ~token.wellformed
             \/ token.sub = None
             \/ ~token.signed
             \/ token.type = "refresh"
          THEN {"AuthTokenInvalidError"} ELSE {})
\* The same, a subject that is no UUID counted as a flaw of the token.
FlawsWithSubjectCallFor(token) ==
    FlawsCallFor(token)
    \cup (IF token.wellformed /\ ~IsUUID(token.sub) THEN {"AuthTokenInvalidError"} ELSE {})

\* C23 as stated: a request without a Bearer header is rejected as
\* unauthorized, one with an expired token as token-expired, one with a
\* malformed, wrongly signed or non-access token as token-invalid (a token
\* with several flaws as one of the errors its flaws call for), and one
\* with a token without flaw whose subject is not the app_owner user as
\* forbidden, the handler body never running.
C23_RejectedUnlessOwner ==
    Answered =>
        /\ ~BearerHeader => Rejected("AuthUnauthorizedError")
        /\ (BearerHeader /\ FlawsCallFor(SentToken) # {}) =>
              \E kind \in FlawsCallFor(SentToken) : Rejected(kind)
        /\ (BearerHeader /\ FlawsCallFor(SentToken) = {} /\ ~SubjectIsOwner) =>
              Rejected("AuthForbiddenError")

\* C23 amended: as stated, except that a token without other flaw whose
\* subject is not a UUID is rejected as token-invalid, and forbidden is the
\* answer to a subject that is a UUID other than the owner's; the handler
\* body runs only for a flawless token whose subject is the owner.
C23_RejectedUnlessOwnerUuid ==
    Answered =>
        /\ ~BearerHeader => Rejected("AuthUnauthorizedError")
        /\ (BearerHeader /\ FlawsWithSubjectCallFor(SentToken) # {}) =>
              \E kind \in FlawsWithSubjectCallFor(SentToken) : Rejected(kind)
        /\ (BearerHeader /\ FlawsWithSubjectCallFor(SentToken) = {} /\ ~SubjectIsOwner) =>
              Rejected("AuthForbiddenError")
        /\ resp.op = "move" =>
              (BearerHeader /\ FlawsWithSubjectCallFor(SentToken) = {} /\ SubjectIsOwner)

\* After the owner had moved c1, a request with a flawless token of
\* another user was answered forbidden and the board stayed as it was.
C23_Witness ==
    /\ resp = AuthForbiddenError
    /\ authorization.owners = {"u1"}
    /\ BearerHeader
    /\ SentToken = Jwt(TRUE, "future", "access", Str("u2"))
    /\ contacts["c1"].status_id = "s2"
    /\ contacts = before
====
